---- MODULE Spec2Model ----
(***************************************************************************)
(* Sprint-progress / cache-coherency subsystem of the mytask backend.      *)
(*                                                                         *)
(* The model follows src/src/controllers/sprintController.js,              *)
(* src/src/controllers/taskController.js, src/src/services/cacheService.js *)
(* and the Mongoose schemas.  Every request handler is a process that      *)
(* advances one awaited call at a time; the entity store is a committed    *)
(* state plus, per open transaction, a log of session writes that is       *)
(* applied on commitTransaction and dropped on abortTransaction.           *)
(***************************************************************************)
EXTENDS Integers, Sequences, FiniteSets, TLC

VARIABLES
    sprints,      \* committed Sprint collection: id -> document or Null
    tasks,        \* committed Task collection: id -> document or Null
    allocated,    \* sprint ids already handed out (ObjectIds are never reused)
    statuses,     \* project.settings.statuses of the project
    cache,        \* node-cache content: key -> cached value or Miss
    req,          \* per request slot: the handler's position and locals
    nops,         \* number of requests started so far
    calls,        \* in-flight getOrSet calls of the cache-level specification
    src,          \* value the fetch function of a key returns now (a version)
    invAt,        \* version at which invalidate(k) last returned (0: never)
    ncalls,       \* number of getOrSet calls started so far
    now,          \* Date.now() of the cache-level specification, in TTL units
    expiry,       \* node-cache's expiry time of the entry last set under a key
    lastInv,      \* the last invalidate or clear call: its argument, the cache before
    pendingRequests,          \* aiService: queue of pending AI requests (ids)
    isProcessingQueue,        \* aiService: a processRequestQueue call is in its loop
    requestsInCurrentWindow,  \* aiService: requests started since the window began
    elapsed,      \* Date.now() - windowStartTime, in ticks, held at the largest value that matters
    timers,       \* setTimeout(processRequestQueue, d) not yet fired: delay left -> how many
    executing,    \* requests whose execute() has been called and has not settled
    nqueued,      \* number of queueAIRequest calls so far; the n-th request has id n
    started,      \* the ids in the order in which their execute() was called
    settled,      \* ids whose promise was resolved or rejected
    windowStarts  \* number of execute() calls since windowStartTime was last set

storeVars == <<sprints, tasks, allocated, statuses>>
queueVars == <<pendingRequests, isProcessingQueue, requestsInCurrentWindow, elapsed, timers,
               executing, nqueued, started, settled, windowStarts>>
cacheVars == <<calls, src, invAt, ncalls, now, expiry, lastInv, queueVars>>
vars == <<sprints, tasks, allocated, statuses, cache, req, nops, calls, src, invAt, ncalls,
          now, expiry, lastInv, queueVars>>

----------------------------------------------------------------------------
(* Bounds of the model *)

\* requests started in one behaviour
MaxOps == 3
\* getOrSet calls started in one behaviour of the cache-level specification
MaxCalls == 3
\* changes of the fetched data in one behaviour of the cache-level specification
MaxVersion == 2
\* ticks of the clock in one behaviour of the cache-level specification
MaxTime == 2

----------------------------------------------------------------------------
(* Identities and inputs *)

Sprints == {"S1", "S2"}
Tasks == {"T1", "T2"}
Reqs == {1, 2}
TheProject == "P1"
Projects == {TheProject}
Actors == {"owner", "outsider"}

Null == [null |-> TRUE]
NoSprint == "none"

\* projectSchema.settings.statuses default
DefaultStatuses == <<"ToDo", "Doing", "Testing", "Done">>
\* a customised vocabulary accepted by updateProjectStatuses
CustomStatuses == <<"ToDo", "Completed">>
StatusInputs == {"ToDo", "Done", "Completed"}

Range(s) == {s[i] : i \in 1..Len(s)}

----------------------------------------------------------------------------
(* Pure helpers *)

\* Array.prototype.filter((tId) => String(tId) !== String(taskId))
RECURSIVE Without(_, _)
Without(s, t) ==
    IF s = <<>> THEN <<>>
    ELSE IF Head(s) = t THEN Without(Tail(s), t)
         ELSE <<Head(s)>> \o Without(Tail(s), t)

\* Math.round((c / n) * 100), n > 0: round half up
RoundPct(c, n) == (200 * c + n) \div (2 * n)

\* Task.find({ _id: { $in: sprint.taskIds } }): the member documents that exist
FoundTasks(tk, ids) == {t \in Range(ids) : tk[t] # Null}

\* tasks.filter(task => task.status === 'Completed')
IsCompletedTask(task) == task.status = "Completed"

\* the value updateSprintProgress assigns to sprint.progressPercentage
ComputeProgress(tk, ids) ==
    LET found == FoundTasks(tk, ids)
        done  == {t \in found : IsCompletedTask(tk[t])}
    IN  IF found = {} THEN 0 ELSE RoundPct(Cardinality(done), Cardinality(found))

\* a permission check that lets every actor through
hasProjectPermissionAnyone(actor) == actor \in {"owner", "outsider"}

\* hasProjectPermission: the owner, or a member whose role is Manager or Admin
hasProjectPermission(actor) == actor = "owner"

\* taskSchema.pre('save'): a modified status must be in the project's vocabulary
StatusAllowed(st, vocab) == st \in Range(vocab)

----------------------------------------------------------------------------
(* Documents *)

\* new Sprint({...}) with the schema defaults (progressPercentage: 0)
\* dates are day numbers; NoDate stands for a date that is not set
NoDate == 0

\* new Date() in the pre-save hook: the day of the run
Now == 2

\* sprintSchema.pre('save'): with both dates set the status is derived from them
PreSaveStatus(doc) ==
    IF doc.startDate # NoDate /\ doc.endDate # NoDate
    THEN IF Now < doc.startDate THEN "Planning"
         ELSE IF Now >= doc.startDate /\ Now <= doc.endDate THEN "Active"
         ELSE IF Now > doc.endDate THEN "Completed"
         ELSE doc.status
    ELSE doc.status

NewSprint(name) ==
    [projectId |-> TheProject, name |-> name, taskIds |-> <<>>, progressPercentage |-> 0,
     status |-> "Planning", startDate |-> NoDate, endDate |-> NoDate]

NewTask(sprintId) ==
    [projectId |-> TheProject, status |-> "ToDo", sprintId |-> sprintId]

\* record r with the fields of f overridden
Merge(r, f) == [k \in DOMAIN r |-> IF k \in DOMAIN f THEN f[k] ELSE r[k]]

\* new Sprint({ name, description, projectId, startDate, endDate, taskIds: [] })
\* as sprint.save() stores it: the pre-save hook has set the status
CreatedSprint(body) ==
    LET doc == Merge(NewSprint(body.name), body)
    IN  [doc EXCEPT !.status = PreSaveStatus(doc)]

\* document.save() of a loaded sprint writes the modified paths: the given
\* fields, and the status when the pre-save hook has changed it
SavedFields(doc, fields) ==
    LET st == PreSaveStatus(Merge(doc, fields))
    IN  IF st # doc.status THEN fields @@ [status |-> st] ELSE fields

----------------------------------------------------------------------------
(* Read-through cache: src/src/services/cacheService.js *)

Miss == [miss |-> TRUE]
Queries == {"q0"}
SprintKey(s) == <<"sprint", s>>
TaskKey(t) == <<"task", t>>
ListKey(p, q) == <<"project", p, "sprints", q>>
CacheKeys == {SprintKey(s) : s \in Sprints} \cup {ListKey(p, q) : p \in Projects, q \in Queries}

\* new NodeCache({ stdTTL: 300, ... }): the time to live of a set without a ttl
stdTTL == 300

\* cache.get(key) that answers with whatever is held, expired or not
cacheGetHeld(c, key) == c[key]

\* cache.get(key): the stored value, or Miss (undefined) when nothing is held or
\* the entry's expiry time has passed
cacheGet(c, key) == IF c[key] # Miss /\ expiry[key] < now THEN Miss ELSE c[key]

\* cache.set(key, value, ttl)
cacheSet(c, key, val) == [c EXCEPT ![key] = [value |-> val]]

IsInfixAt(p, k, i) ==
    /\ i + Len(p) - 1 <= Len(k)
    /\ \A j \in 1..Len(p) : k[i + j - 1] = p[j]

\* new RegExp(keyPattern.replace('*', '.*')).test(key): the text before the first
\* wildcard occurs in the key and the text after it occurs later on; unanchored
PatternTest(pat, key) ==
    LET star == CHOOSE i \in 1..Len(pat) : pat[i] = "*" /\ \A j \in 1..(i - 1) : pat[j] # "*"
        pre  == SubSeq(pat, 1, star - 1)
        post == SubSeq(pat, star + 1, Len(pat))
    IN  \E a \in 1..(Len(key) + 1) :
            /\ IsInfixAt(pre, key, a)
            /\ \E b \in (a + Len(pre))..(Len(key) + 1) : IsInfixAt(post, key, b)

\* the keys invalidate(keyPattern) deletes
InvalidatedKeys(c, pat) ==
    IF "*" \in Range(pat)
    THEN {k \in DOMAIN c : c[k] # Miss /\ PatternTest(pat, k)}
    ELSE {k \in DOMAIN c : k = pat}

\* an invalidate that knows no wildcard: cache.del(keyPattern) whatever the text
invalidateExact(c, pat) ==
    [k \in DOMAIN c |-> IF k = pat THEN Miss ELSE c[k]]

\* exports.invalidate
invalidate(c, pat) ==
    [k \in DOMAIN c |-> IF k \in InvalidatedKeys(c, pat) THEN Miss ELSE c[k]]

RECURSIVE invalidateAll(_, _)
invalidateAll(c, pats) ==
    IF pats = <<>> THEN c ELSE invalidateAll(invalidate(c, Head(pats)), Tail(pats))

----------------------------------------------------------------------------
(* Entity store: committed state and session writes *)

SprintDocKey(s) == <<"Sprint", s>>
TaskDocKey(t) == <<"Task", t>>

\* one write of a session: k in insertSprint, setSprint, pushTask, deleteSprint, setTask
WriteOp(k, id, arg) == [k |-> k, id |-> id, arg |-> arg]

OpDoc(op) == IF op.k = "setTask" THEN TaskDocKey(op.id) ELSE SprintDocKey(op.id)

Touched(ws) == {OpDoc(ws[i]) : i \in 1..Len(ws)}

\* the effect of one write on the collections st = [s |-> sprints, t |-> tasks]
ApplyOp(st, op) ==
    CASE op.k = "insertSprint" ->
            [st EXCEPT !.s[op.id] = op.arg]
      [] op.k = "setSprint" ->
            IF st.s[op.id] = Null THEN st
            ELSE [st EXCEPT !.s[op.id] = Merge(@, op.arg)]
      [] op.k = "pushTask" ->
            IF st.s[op.id] = Null THEN st
            ELSE [st EXCEPT !.s[op.id].taskIds = Append(@, op.arg)]
      [] op.k = "deleteSprint" ->
            [st EXCEPT !.s[op.id] = Null]
      [] op.k = "setTask" ->
            IF st.t[op.id] = Null THEN st
            ELSE [st EXCEPT !.t[op.id] = Merge(@, op.arg)]

RECURSIVE ApplyAll(_, _)
ApplyAll(st, ws) ==
    IF ws = <<>> THEN st ELSE ApplyAll(ApplyOp(st, Head(ws)), Tail(ws))

\* session.commitTransaction(): every write of the session becomes visible at once
CommitWrites(st, ws) == ApplyAll(st, ws)

\* session.abortTransaction(): the writes of the session are dropped
AbortWrites(ws) == <<>>

----------------------------------------------------------------------------
(* Request slots *)

NoPatch == [none |-> TRUE]

\* no recalculate-progress call was the last one answered
NoPrev == [none |-> TRUE]

IdleReq ==
    [op |-> "idle", pc |-> "idle", actor |-> "none", pid |-> "none",
     sid |-> "none", tid |-> "none", body |-> NoPatch, txn |-> "none",
     writes |-> <<>>, err |-> "none", handed |-> "none", resp |-> 0,
     sprint |-> Null, task |-> Null, other |-> Null, result |-> Null,
     emitted |-> {}, invalidated |-> {},
     preSprints |-> Null, preTasks |-> Null, prev |-> NoPrev]

\* the handler of slot r moves on with the locals of f changed
Go(r, f) == req' = [req EXCEPT ![r] = Merge(@, f)]

\* const session = await mongoose.startSession(); session.startTransaction();
Begin(r, op, args, pc, txn) ==
    /\ req[r].pc = "idle"
    /\ nops < MaxOps
    /\ nops' = nops + 1
    /\ req' = [req EXCEPT ![r] =
            Merge(Merge(IdleReq, args),
                  [op |-> op, pc |-> pc, txn |-> txn,
                   preSprints |-> sprints, preTasks |-> tasks,
                   prev |-> IF op = "recalculateSprintProgress"
                            THEN req[r].prev ELSE NoPrev])]

\* the status the error handler answers with for an error passed to next()
ErrStatus(e) ==
    CASE e = "InvalidInput" -> 400
      [] e = "ValidatorError" -> 400
      [] e = "Forbidden" -> 403
      [] e = "NotFound" -> 404
      [] OTHER -> 500

\* return next(new AppError(message, statusCode)) inside the try block: the
\* handler ends; the transaction is neither committed nor aborted
Reject(r, e) == Go(r, [pc |-> "done", handed |-> e, resp |-> ErrStatus(e)])

\* an awaited call or an expression throws: control passes to the catch block
Throw(r, e) == Go(r, [pc |-> "catch", err |-> e])

\* a document is write-locked by the uncommitted write of another session
LockedByOther(r, doc) ==
    \E q \in Reqs \ {r} : req[q].txn = "open" /\ doc \in Touched(req[q].writes)

\* a write with { session }: kept in the session until commit; a document
\* written by another open transaction gives a WriteConflict error
SessionWrite(r, ops, f) ==
    IF \E i \in 1..Len(ops) : LockedByOther(r, OpDoc(ops[i]))
    THEN Throw(r, "WriteConflict")
    ELSE Go(r, f @@ [writes |-> req[r].writes \o ops])

\* a write without a session waits for the open transactions that wrote the document
DirectWriteFree(doc) ==
    \A q \in Reqs : ~(req[q].txn = "open" /\ doc \in Touched(req[q].writes))

\* emitToProject / emitToSprint
ProjectRoom(p) == <<"project", p>>
SprintRoom(s) == <<"sprint", s>>
Event(room, name) == [room |-> room, name |-> name]

----------------------------------------------------------------------------
(* Input validation: src/validators/sprintValidator.js *)

NameInputs == {"Sprint B", "ab"}

\* name.trim().length: of the names of the model only "  ab  " has white space
\* around it
TrimmedLength(name) == IF name = "  ab  " THEN Len("ab") ELSE Len(name)

\* a validation that does not ask for the second date
validateSprintInputOneDate(data, isUpdate) ==
    IF ~isUpdate /\ "name" \notin DOMAIN data
    THEN "Sprint name is required"
    ELSE IF "name" \in DOMAIN data
            /\ (TrimmedLength(data.name) < 3 \/ TrimmedLength(data.name) > 100)
    THEN "Sprint name must be between 3 and 100 characters"
    ELSE IF "startDate" \in DOMAIN data /\ "endDate" \in DOMAIN data
    THEN IF data.startDate < 0 \/ data.endDate < 0
         THEN "Invalid date format"
         ELSE IF data.endDate < data.startDate
         THEN "End date must be after start date"
         ELSE "none"
    ELSE "none"

\* validateSprintInput(data, isUpdate): an error message or null ("none"); a date
\* below 0 stands for a text new Date() cannot parse (getTime() is NaN)
validateSprintInput(data, isUpdate) ==
    IF ~isUpdate /\ "name" \notin DOMAIN data
    THEN "Sprint name is required"
    ELSE IF "name" \in DOMAIN data
            /\ (TrimmedLength(data.name) < 3 \/ TrimmedLength(data.name) > 100)
    THEN "Sprint name must be between 3 and 100 characters"
    ELSE IF "startDate" \in DOMAIN data /\ "endDate" \in DOMAIN data
    THEN IF data.startDate < 0 \/ data.endDate < 0
         THEN "Invalid date format"
         ELSE IF data.endDate < data.startDate
         THEN "End date must be after start date"
         ELSE "none"
    ELSE IF ("startDate" \in DOMAIN data) # ("endDate" \in DOMAIN data) /\ ~isUpdate
    THEN "Both start and end dates must be provided"
    ELSE "none"

\* sprintSchema validators run by runValidators: progressPercentage in 0..100,
\* name of 3 to 100 characters, status of the enum.  The validators of
\* startDate and endDate compare with this.endDate and this.startDate; in an
\* update `this` is not the stored document, both are undefined there and the
\* validators accept every date
SchemaAccepts(data) ==
    /\ "progressPercentage" \in DOMAIN data =>
            (data.progressPercentage >= 0 /\ data.progressPercentage <= 100)
    /\ "name" \in DOMAIN data => (Len(data.name) >= 3 /\ Len(data.name) <= 100)
    /\ "status" \in DOMAIN data =>
            data.status \in {"Planning", "Active", "Completed", "Cancelled"}

----------------------------------------------------------------------------
(* createSprint: sprintController.js 19-98 *)

CreateBodies ==
    {[name |-> n] : n \in NameInputs}
    \cup {[description |-> "d"]}
    \cup {[name |-> "Sprint B", startDate |-> 3, endDate |-> 3]}
    \cup {[name |-> "  ab  "], [name |-> "xxxxxxxxxxxxxxxxxxxxxxxxxxxxxxxxxxxxxxxxxxxxxxxxxxxxxxxxxxxxxxxxxxxxxxxxxxxxxxxxxxxxxxxxxxxxxxxxxxxxx"]}
    \cup {[name |-> "Sprint B", startDate |-> 3, endDate |-> e] : e \in {-1, 1}}
    \cup {[name |-> "Sprint B", startDate |-> 3]}

\* validateSprintRequest(isUpdate), the route's middleware: an invalid body is
\* answered with 400 before the handler runs
validateSprintRequest(body, isUpdate) == validateSprintInput(body, isUpdate) = "none"

\* the request is answered by the middleware: no handler, no transaction
Refused(r, op, args) ==
    /\ Begin(r, op, args, "done", "none")
    /\ UNCHANGED <<storeVars, cache, cacheVars>>

createSprint_refused(r) ==
    \E actor \in Actors, body \in CreateBodies :
        /\ ~validateSprintRequest(body, FALSE)
        /\ Refused(r, "createSprint",
                   [actor |-> actor, pid |-> TheProject, body |-> body, resp |-> 400])

createSprint_start(r) ==
    \E actor \in Actors, pid \in Projects \cup {"PX"}, body \in CreateBodies,
       id \in Sprints \ allocated :
        /\ validateSprintRequest(body, FALSE)
        /\ Begin(r, "createSprint",
                 [actor |-> actor, pid |-> pid, body |-> body, sid |-> id],
                 "cs_validate", "open")
        /\ allocated' = allocated \cup {id}
        /\ UNCHANGED <<sprints, tasks, statuses, cache, cacheVars>>

\* lines 24-31
createSprint_validate(r) ==
    /\ req[r].pc = "cs_validate"
    /\ IF validateSprintInput(req[r].body, FALSE) # "none"
       THEN Reject(r, "InvalidInput")
       ELSE Go(r, [pc |-> "cs_findProject"])
    /\ UNCHANGED <<storeVars, cache, nops, cacheVars>>

\* lines 34-42
createSprint_findProject(r) ==
    /\ req[r].pc = "cs_findProject"
    /\ IF req[r].pid \notin Projects THEN Reject(r, "NotFound")
       ELSE IF ~hasProjectPermission(req[r].actor) THEN Reject(r, "Forbidden")
       ELSE Go(r, [pc |-> "cs_save"])
    /\ UNCHANGED <<storeVars, cache, nops, cacheVars>>

\* lines 45-69: sprint.save({ session }), logAction, notifyProjectMembers
createSprint_save(r) ==
    /\ req[r].pc = "cs_save"
    /\ SessionWrite(r, <<WriteOp("insertSprint", req[r].sid, CreatedSprint(req[r].body))>>,
                    [pc |-> "cs_publish", sprint |-> CreatedSprint(req[r].body)])
    /\ UNCHANGED <<storeVars, cache, nops, cacheVars>>

\* lines 72-83: emitToProject('sprint:created'); invalidate(`project:${id}:sprints`)
createSprint_publish(r) ==
    /\ req[r].pc = "cs_publish"
    /\ cache' = invalidate(cache, <<"project", req[r].pid, "sprints">>)
    /\ Go(r, [pc |-> "cs_commit",
              emitted |-> req[r].emitted \cup {Event(ProjectRoom(req[r].pid), "sprint:created")},
              invalidated |-> req[r].invalidated \cup {<<"project", req[r].pid, "sprints">>}])
    /\ UNCHANGED <<storeVars, nops, cacheVars>>

\* commitTransaction, endSession and the success response of a handler
CommitAndRespond(r, pc, code) ==
    /\ req[r].pc = pc
    /\ LET st == CommitWrites([s |-> sprints, t |-> tasks], req[r].writes)
       IN  /\ sprints' = st.s
           /\ tasks' = st.t
    /\ Go(r, [pc |-> "done", txn |-> "committed", writes |-> <<>>, resp |-> code])
    /\ UNCHANGED <<allocated, statuses, cache, nops, cacheVars>>

\* lines 85-91
createSprint_commit(r) == CommitAndRespond(r, "cs_commit", 201)

----------------------------------------------------------------------------
(* updateSprint: sprintController.js 223-309 *)

\* request bodies of PUT /sprints/:id: any schema path of the body is written
UpdateBodies ==
    {[name |-> n] : n \in NameInputs}
    \cup {[taskIds |-> ids] : ids \in {<<>>, <<"T1">>}}
    \cup {[progressPercentage |-> p] : p \in {50, 150}}
    \cup {[status |-> st] : st \in {"Cancelled", "Paused"}}
    \cup {[startDate |-> 3, endDate |-> e] : e \in {1, 3}}
    \cup {[startDate |-> 4]}

updateSprint_refused(r) ==
    \E actor \in Actors, sid \in Sprints, body \in UpdateBodies :
        /\ ~validateSprintRequest(body, TRUE)
        /\ Refused(r, "updateSprint",
                   [actor |-> actor, sid |-> sid, body |-> body, resp |-> 400])

updateSprint_start(r) ==
    \E actor \in Actors, sid \in Sprints, body \in UpdateBodies :
        /\ validateSprintRequest(body, TRUE)
        /\ Begin(r, "updateSprint", [actor |-> actor, sid |-> sid, body |-> body],
                 "us_find", "open")
        /\ UNCHANGED <<storeVars, cache, cacheVars>>

\* lines 228-255: validateSprintInput, Sprint.findById, Project.findById, permission
updateSprint_find(r) ==
    /\ req[r].pc = "us_find"
    /\ IF validateSprintInput(req[r].body, TRUE) # "none" THEN Reject(r, "InvalidInput")
       ELSE IF sprints[req[r].sid] = Null THEN Reject(r, "NotFound")
       ELSE IF ~hasProjectPermission(req[r].actor) THEN Reject(r, "Forbidden")
       ELSE Go(r, [pc |-> "us_update", sprint |-> sprints[req[r].sid],
                   pid |-> sprints[req[r].sid].projectId])
    /\ UNCHANGED <<storeVars, cache, nops, cacheVars>>

\* lines 257-277: Sprint.findByIdAndUpdate(sprintId, { $set: updateData },
\* { new: true, runValidators: true, session }); the result is null when the
\* sprint is gone, and line 282 then reads a property of null
updateSprint_update(r) ==
    /\ req[r].pc = "us_update"
    /\ IF ~SchemaAccepts(req[r].body) THEN Throw(r, "ValidatorError")
       ELSE IF sprints[req[r].sid] = Null THEN Throw(r, "TypeError")
       ELSE SessionWrite(r, <<WriteOp("setSprint", req[r].sid, req[r].body)>>,
                         [pc |-> "us_publish",
                          result |-> Merge(sprints[req[r].sid], req[r].body)])
    /\ UNCHANGED <<storeVars, cache, nops, cacheVars>>

\* lines 280-294: 'sprint:updated', 'sprint:details:updated', invalidate twice
updateSprint_publish(r) ==
    /\ req[r].pc = "us_publish"
    /\ LET pats == <<SprintKey(req[r].sid), <<"project", req[r].pid, "sprints", "*">> >>
       IN  /\ cache' = invalidateAll(cache, pats)
           /\ Go(r, [pc |-> "us_commit",
                     emitted |-> req[r].emitted \cup
                         {Event(ProjectRoom(req[r].pid), "sprint:updated"),
                          Event(SprintRoom(req[r].sid), "sprint:details:updated")},
                     invalidated |-> req[r].invalidated \cup Range(pats)])
    /\ UNCHANGED <<storeVars, nops, cacheVars>>

\* lines 296-302
updateSprint_commit(r) == CommitAndRespond(r, "us_commit", 200)

----------------------------------------------------------------------------
(* deleteSprint: sprintController.js 316-389 *)

deleteSprint_start(r) ==
    \E actor \in Actors, sid \in Sprints :
        /\ Begin(r, "deleteSprint", [actor |-> actor, sid |-> sid], "ds_find", "open")
        /\ UNCHANGED <<storeVars, cache, cacheVars>>

\* lines 321-348
deleteSprint_find(r) ==
    /\ req[r].pc = "ds_find"
    /\ IF sprints[req[r].sid] = Null THEN Reject(r, "NotFound")
       ELSE IF ~hasProjectPermission(req[r].actor) THEN Reject(r, "Forbidden")
       ELSE Go(r, [pc |-> "ds_unset", sprint |-> sprints[req[r].sid],
                   pid |-> sprints[req[r].sid].projectId])
    /\ UNCHANGED <<storeVars, cache, nops, cacheVars>>

\* the writes of Task.updateMany({ _id: { $in: ids } }, { $unset: { sprintId: '' } })
RECURSIVE UnsetSprintIdOps(_)
UnsetSprintIdOps(ids) ==
    IF ids = <<>> THEN <<>>
    ELSE <<WriteOp("setTask", Head(ids), [sprintId |-> NoSprint])>>
         \o UnsetSprintIdOps(Tail(ids))

\* lines 350-355
deleteSprint_unset(r) ==
    /\ req[r].pc = "ds_unset"
    /\ SessionWrite(r, UnsetSprintIdOps(req[r].sprint.taskIds), [pc |-> "ds_delete"])
    /\ UNCHANGED <<storeVars, cache, nops, cacheVars>>

\* lines 357-367: Sprint.deleteOne({ _id: sprintId }, { session })
deleteSprint_delete(r) ==
    /\ req[r].pc = "ds_delete"
    /\ SessionWrite(r, <<WriteOp("deleteSprint", req[r].sid, Null)>>, [pc |-> "ds_publish"])
    /\ UNCHANGED <<storeVars, cache, nops, cacheVars>>

\* lines 369-374: 'sprint:deleted', invalidate twice
deleteSprint_publish(r) ==
    /\ req[r].pc = "ds_publish"
    /\ LET pats == <<SprintKey(req[r].sid), <<"project", req[r].pid, "sprints", "*">> >>
       IN  /\ cache' = invalidateAll(cache, pats)
           /\ Go(r, [pc |-> "ds_commit",
                     emitted |-> req[r].emitted \cup
                         {Event(ProjectRoom(req[r].pid), "sprint:deleted")},
                     invalidated |-> req[r].invalidated \cup Range(pats)])
    /\ UNCHANGED <<storeVars, nops, cacheVars>>

\* lines 376-382
deleteSprint_commit(r) == CommitAndRespond(r, "ds_commit", 200)

----------------------------------------------------------------------------
(* addTaskToSprint: sprintController.js 396-521 *)

\* validateTaskOperation lets well-formed ids through
addTaskToSprint_start(r) ==
    \E actor \in Actors, sid \in Sprints, tid \in Tasks :
        /\ Begin(r, "addTaskToSprint", [actor |-> actor, sid |-> sid, tid |-> tid],
                 "at_find", "open")
        /\ UNCHANGED <<storeVars, cache, cacheVars>>

\* lines 401-421: Sprint.findById, Project.findById, hasProjectPermission
addTaskToSprint_find(r) ==
    /\ req[r].pc = "at_find"
    /\ IF sprints[req[r].sid] = Null THEN Reject(r, "NotFound")
       ELSE IF ~hasProjectPermission(req[r].actor) THEN Reject(r, "Forbidden")
       ELSE Go(r, [pc |-> "at_findTask", sprint |-> sprints[req[r].sid],
                   pid |-> sprints[req[r].sid].projectId])
    /\ UNCHANGED <<storeVars, cache, nops, cacheVars>>

\* the task lookup without the comparison of the two project ids
addTaskToSprint_findTaskAnyProject(r) ==
    /\ req[r].pc = "at_findTask"
    /\ LET task == tasks[req[r].tid]
       IN  IF task = Null THEN Reject(r, "NotFound")
           ELSE IF task.sprintId # NoSprint /\ task.sprintId # req[r].sid
           THEN Go(r, [pc |-> "at_findOther", task |-> task])
           ELSE Go(r, [pc |-> "at_push", task |-> task])
    /\ UNCHANGED <<storeVars, cache, nops, cacheVars>>

\* lines 423-434: Task.findById, same-project check, is it in another sprint
addTaskToSprint_findTask(r) ==
    /\ req[r].pc = "at_findTask"
    /\ LET task == tasks[req[r].tid]
       IN  IF task = Null THEN Reject(r, "NotFound")
           ELSE IF task.projectId # req[r].pid THEN Reject(r, "InvalidInput")
           ELSE IF task.sprintId # NoSprint /\ task.sprintId # req[r].sid
           THEN Go(r, [pc |-> "at_findOther", task |-> task])
           ELSE Go(r, [pc |-> "at_push", task |-> task])
    /\ UNCHANGED <<storeVars, cache, nops, cacheVars>>

\* line 435: Sprint.findById(task.sprintId)
addTaskToSprint_findOther(r) ==
    /\ req[r].pc = "at_findOther"
    /\ LET other == sprints[req[r].task.sprintId]
       IN  IF other = Null THEN Go(r, [pc |-> "at_push"])
           ELSE Go(r, [pc |-> "at_saveOther", other |-> other])
    /\ UNCHANGED <<storeVars, cache, nops, cacheVars>>

\* document.save() of a document that is no longer stored throws
SaveWrite(r, doc, ops, f) ==
    IF (doc[1] = "Sprint" /\ sprints[doc[2]] = Null) \/ (doc[1] = "Task" /\ tasks[doc[2]] = Null)
    THEN Throw(r, "DocumentNotFound")
    ELSE SessionWrite(r, ops, f)

\* lines 437-450: otherSprint.taskIds = filter(...); otherSprint.save({ session });
\* invalidate(`sprint:${otherSprint._id}`); emitToSprint('sprint:task:removed')
addTaskToSprint_saveOther(r) ==
    /\ req[r].pc = "at_saveOther"
    /\ LET oid == req[r].task.sprintId
           ops == <<WriteOp("setSprint", oid,
                            SavedFields(req[r].other,
                                [taskIds |-> Without(req[r].other.taskIds, req[r].tid)]))>>
           ok  == sprints[oid] # Null /\ ~LockedByOther(r, SprintDocKey(oid))
       IN  /\ SaveWrite(r, SprintDocKey(oid), ops,
                   [pc |-> "at_push",
                    emitted |-> req[r].emitted \cup {Event(SprintRoom(oid), "sprint:task:removed")},
                    invalidated |-> req[r].invalidated \cup {SprintKey(oid)}])
           /\ cache' = IF ok THEN invalidate(cache, SprintKey(oid)) ELSE cache
    /\ UNCHANGED <<storeVars, nops, cacheVars>>

\* sprint.save() without the session: the push is applied at once
addTaskToSprint_pushNoSession(r) ==
    /\ req[r].pc = "at_push"
    /\ sprints' = IF req[r].tid \in Range(req[r].sprint.taskIds) \/ sprints[req[r].sid] = Null
                  THEN sprints
                  ELSE [sprints EXCEPT ![req[r].sid].taskIds = Append(@, req[r].tid)]
    /\ Go(r, [pc |-> "at_saveTask"])
    /\ UNCHANGED <<tasks, allocated, statuses, cache, nops, cacheVars>>

\* lines 454-458: push the task unless it is present; sprint.save({ session })
addTaskToSprint_push(r) ==
    /\ req[r].pc = "at_push"
    /\ IF req[r].tid \in Range(req[r].sprint.taskIds)
       THEN Go(r, [pc |-> "at_saveTask"])
       ELSE SaveWrite(r, SprintDocKey(req[r].sid),
                      <<WriteOp("pushTask", req[r].sid, req[r].tid),
                        WriteOp("setSprint", req[r].sid, SavedFields(req[r].sprint, <<>>))>>,
                      [pc |-> "at_saveTask"])
    /\ UNCHANGED <<storeVars, cache, nops, cacheVars>>

\* lines 460-463: task.sprintId = sprint._id; task.save({ session })
addTaskToSprint_saveTask(r) ==
    /\ req[r].pc = "at_saveTask"
    /\ SaveWrite(r, TaskDocKey(req[r].tid),
                 <<WriteOp("setTask", req[r].tid, [sprintId |-> req[r].sid])>>,
                 [pc |-> "at_notify"])
    /\ UNCHANGED <<storeVars, cache, nops, cacheVars>>

\* lines 465-481: logAction, createNotification for the assignee
addTaskToSprint_notify(r) ==
    /\ req[r].pc = "at_notify"
    /\ Go(r, [pc |-> "at_progress"])
    /\ UNCHANGED <<storeVars, cache, nops, cacheVars>>

\* line 484: await updateSprintProgress(sprintId, session).  The module binds the
\* function only as exports.updateSprintProgress (line 632); no identifier
\* updateSprintProgress is in scope, so evaluating the call throws a
\* ReferenceError and lines 486-514 are never reached
CallUpdateSprintProgress(r) == Throw(r, "ReferenceError")

addTaskToSprint_progress(r) ==
    /\ req[r].pc = "at_progress"
    /\ CallUpdateSprintProgress(r)
    /\ UNCHANGED <<storeVars, cache, nops, cacheVars>>

----------------------------------------------------------------------------
(* removeTaskFromSprint: sprintController.js 528-626 *)

removeTaskFromSprint_start(r) ==
    \E actor \in Actors, sid \in Sprints, tid \in Tasks :
        /\ Begin(r, "removeTaskFromSprint", [actor |-> actor, sid |-> sid, tid |-> tid],
                 "rt_find", "open")
        /\ UNCHANGED <<storeVars, cache, cacheVars>>

\* lines 533-553
removeTaskFromSprint_find(r) ==
    /\ req[r].pc = "rt_find"
    /\ IF sprints[req[r].sid] = Null THEN Reject(r, "NotFound")
       ELSE IF ~hasProjectPermission(req[r].actor) THEN Reject(r, "Forbidden")
       ELSE Go(r, [pc |-> "rt_findTask", sprint |-> sprints[req[r].sid],
                   pid |-> sprints[req[r].sid].projectId])
    /\ UNCHANGED <<storeVars, cache, nops, cacheVars>>

\* line 556: Task.findById(taskId), null when the task is gone
removeTaskFromSprint_findTask(r) ==
    /\ req[r].pc = "rt_findTask"
    /\ Go(r, [pc |-> "rt_saveSprint", task |-> tasks[req[r].tid]])
    /\ UNCHANGED <<storeVars, cache, nops, cacheVars>>

\* lines 558-560: sprint.taskIds = filter(...); sprint.save({ session })
removeTaskFromSprint_saveSprint(r) ==
    /\ req[r].pc = "rt_saveSprint"
    /\ SaveWrite(r, SprintDocKey(req[r].sid),
                 <<WriteOp("setSprint", req[r].sid,
                           SavedFields(req[r].sprint,
                               [taskIds |-> Without(req[r].sprint.taskIds, req[r].tid)]))>>,
                 [pc |-> "rt_saveTask"])
    /\ UNCHANGED <<storeVars, cache, nops, cacheVars>>

\* task.save() without the session: the write is applied at once
removeTaskFromSprint_saveTaskNoSession(r) ==
    /\ req[r].pc = "rt_saveTask"
    /\ tasks' = IF tasks[req[r].tid] = Null THEN tasks
                ELSE [tasks EXCEPT ![req[r].tid].sprintId = NoSprint]
    /\ Go(r, [pc |-> "rt_notify"])
    /\ UNCHANGED <<sprints, allocated, statuses, cache, nops, cacheVars>>

\* lines 562-592: task.sprintId = undefined; task.save({ session }); or, without a
\* task document, Task.findByIdAndUpdate(taskId, { $unset }, { session })
removeTaskFromSprint_saveTask(r) ==
    /\ req[r].pc = "rt_saveTask"
    /\ LET ops == <<WriteOp("setTask", req[r].tid, [sprintId |-> NoSprint])>>
       IN  IF req[r].task # Null
           THEN SaveWrite(r, TaskDocKey(req[r].tid), ops, [pc |-> "rt_notify"])
           ELSE SessionWrite(r, ops, [pc |-> "rt_notify"])
    /\ UNCHANGED <<storeVars, cache, nops, cacheVars>>

\* lines 568-592: createNotification for the assignee, logAction
removeTaskFromSprint_notify(r) ==
    /\ req[r].pc = "rt_notify"
    /\ Go(r, [pc |-> "rt_progress"])
    /\ UNCHANGED <<storeVars, cache, nops, cacheVars>>

\* line 595: the same unbound call as in addTaskToSprint
removeTaskFromSprint_progress(r) ==
    /\ req[r].pc = "rt_progress"
    /\ CallUpdateSprintProgress(r)
    /\ UNCHANGED <<storeVars, cache, nops, cacheVars>>

----------------------------------------------------------------------------
(* Failure, the catch blocks of the transactional handlers, completion *)

\* positions at which an awaited store call is pending inside the try block
AwaitPcs ==
    {"cs_findProject", "cs_save",
     "us_find", "us_update",
     "ds_find", "ds_unset", "ds_delete",
     "at_find", "at_findTask", "at_findOther", "at_saveOther", "at_push",
     "at_saveTask",
     "rt_find", "rt_findTask", "rt_saveSprint", "rt_saveTask"}

\* the pending call (a read or a write of the store) rejects
StoreFails(r) ==
    /\ req[r].pc \in AwaitPcs
    /\ Throw(r, "StoreError")
    /\ UNCHANGED <<storeVars, cache, nops, cacheVars>>

\* await createNotification(...) for the task's assignee rejects: the service
\* logs the error and throws it again (notificationService.js 38-41); without a
\* task document removeTaskFromSprint sends no notification
NotificationFails(r) ==
    /\ req[r].pc \in {"at_notify", "rt_notify"}
    /\ req[r].task # Null
    /\ Throw(r, "NotificationError")
    /\ UNCHANGED <<storeVars, cache, nops, cacheVars>>

\* the pcs at which session.commitTransaction() is awaited
CommitPcs == {"cs_commit", "us_commit", "ds_commit"}

\* await session.commitTransaction() rejects: nothing of the transaction is applied
CommitFails(r) ==
    /\ req[r].pc \in CommitPcs
    /\ Throw(r, "CommitError")
    /\ UNCHANGED <<storeVars, cache, nops, cacheVars>>

\* catch (error) { await session.abortTransaction(); session.endSession(); next(error); }
CatchAbort(r) ==
    /\ req[r].pc = "catch"
    /\ req[r].txn = "open"
    /\ Go(r, [pc |-> "done", txn |-> "aborted", writes |-> AbortWrites(req[r].writes),
              handed |-> req[r].err, resp |-> ErrStatus(req[r].err)])
    /\ UNCHANGED <<storeVars, cache, nops, cacheVars>>

\* the catch block after a rejected commit: commitTransaction() has been called on
\* the session, which can make await session.abortTransaction() reject in turn;
\* the catch block ends there, next(error) is not reached and no response is sent
CatchAbortRejects(r) ==
    /\ req[r].pc = "catch"
    /\ req[r].txn = "open"
    /\ req[r].err = "CommitError"
    /\ Go(r, [pc |-> "done", txn |-> "aborted", writes |-> AbortWrites(req[r].writes)])
    /\ UNCHANGED <<storeVars, cache, nops, cacheVars>>

\* what the caller of recalculate-progress was answered: the status and, with
\* status 200, data.progressPercentage (lines 692-698)
Answer(q) ==
    IF q.op = "recalculateSprintProgress"
    THEN [actor |-> q.actor, sid |-> q.sid, resp |-> q.resp,
          progressPercentage |-> IF q.resp = 200 THEN q.result.progressPercentage ELSE 0]
    ELSE NoPrev

\* the response has been sent; the slot serves the next request
Finish(r) ==
    /\ req[r].pc = "done"
    /\ req' = [req EXCEPT ![r] = [IdleReq EXCEPT !.prev = Answer(req[r])]]
    /\ UNCHANGED <<storeVars, cache, nops, cacheVars>>

----------------------------------------------------------------------------
(* updateSprintProgress and recalculateSprintProgress: sprintController.js 632-702 *)

recalculateSprintProgress_start(r) ==
    \E actor \in Actors, sid \in Sprints :
        /\ Begin(r, "recalculateSprintProgress", [actor |-> actor, sid |-> sid],
                 "rp_find", "none")
        /\ UNCHANGED <<storeVars, cache, cacheVars>>

\* lines 672-688
recalculateSprintProgress_find(r) ==
    /\ req[r].pc = "rp_find"
    /\ IF sprints[req[r].sid] = Null THEN Reject(r, "NotFound")
       ELSE IF ~hasProjectPermission(req[r].actor) THEN Reject(r, "Forbidden")
       ELSE Go(r, [pc |-> "rp_load", pid |-> sprints[req[r].sid].projectId])
    /\ UNCHANGED <<storeVars, cache, nops, cacheVars>>

\* lines 634-635: Sprint.findById; no sprint or no member: return null, and
\* line 695 then reads updatedSprint._id of null
updateSprintProgress_load(r) ==
    /\ req[r].pc = "rp_load"
    /\ LET sprint == sprints[req[r].sid]
       IN  IF sprint = Null \/ Len(sprint.taskIds) = 0
           THEN Throw(r, "TypeError")
           ELSE Go(r, [pc |-> "rp_tasks", sprint |-> sprint])
    /\ UNCHANGED <<storeVars, cache, nops, cacheVars>>

\* a recomputation that blends the stored percentage into the new one
updateSprintProgress_blend(r) ==
    /\ req[r].pc = "rp_tasks"
    /\ Go(r, [pc |-> "rp_save",
              sprint |-> [req[r].sprint EXCEPT
                  !.progressPercentage =
                      (req[r].sprint.progressPercentage
                         + ComputeProgress(tasks, req[r].sprint.taskIds)) \div 2]])
    /\ UNCHANGED <<storeVars, cache, nops, cacheVars>>

\* lines 637-644: Task.find, count the completed ones, round
updateSprintProgress_tasks(r) ==
    /\ req[r].pc = "rp_tasks"
    /\ Go(r, [pc |-> "rp_save",
              sprint |-> [req[r].sprint EXCEPT
                  !.progressPercentage = ComputeProgress(tasks, req[r].sprint.taskIds)]])
    /\ UNCHANGED <<storeVars, cache, nops, cacheVars>>

\* lines 646-662 and 692-698: sprint.save() without a session writes the modified
\* path, then 'sprint:progress:updated', invalidate(`sprint:${sprintId}`), response
updateSprintProgress_save(r) ==
    /\ req[r].pc = "rp_save"
    /\ DirectWriteFree(SprintDocKey(req[r].sid))
    /\ IF sprints[req[r].sid] = Null
       THEN /\ Throw(r, "DocumentNotFound")
            /\ UNCHANGED <<sprints, cache>>
       ELSE /\ sprints' = [sprints EXCEPT ![req[r].sid] =
                    Merge(@, SavedFields(req[r].sprint,
                        [progressPercentage |-> req[r].sprint.progressPercentage]))]
            /\ cache' = invalidate(cache, SprintKey(req[r].sid))
            /\ Go(r, [pc |-> "done", resp |-> 200, result |-> req[r].sprint,
                      emitted |-> req[r].emitted \cup
                          {Event(ProjectRoom(req[r].pid), "sprint:progress:updated")},
                      invalidated |-> req[r].invalidated \cup {SprintKey(req[r].sid)}])
    /\ UNCHANGED <<tasks, allocated, statuses, nops, cacheVars>>

\* catch (error) { next(error); } of a handler without a transaction
CatchNext(r) ==
    /\ req[r].pc = "catch"
    /\ req[r].txn = "none"
    /\ Go(r, [pc |-> "done", handed |-> req[r].err, resp |-> ErrStatus(req[r].err)])
    /\ UNCHANGED <<storeVars, cache, nops, cacheVars>>

----------------------------------------------------------------------------
(* updateTask, deleteTask: taskController.js 149-315 *)

updateTask_start(r) ==
    \E tid \in Tasks, st \in StatusInputs :
        /\ Begin(r, "updateTask", [actor |-> "owner", tid |-> tid, body |-> [status |-> st]],
                 "ut_find", "none")
        /\ UNCHANGED <<storeVars, cache, cacheVars>>

\* lines 151-157
updateTask_find(r) ==
    /\ req[r].pc = "ut_find"
    /\ IF tasks[req[r].tid] = Null
       THEN Go(r, [pc |-> "done", resp |-> 404])
       ELSE Go(r, [pc |-> "ut_save", task |-> tasks[req[r].tid]])
    /\ UNCHANGED <<storeVars, cache, nops, cacheVars>>

\* lines 159-249: task.status = status when it differs; task.save() runs the
\* pre-save check of a modified status; no sprint document is read or written
updateTask_save(r) ==
    /\ req[r].pc = "ut_save"
    /\ DirectWriteFree(TaskDocKey(req[r].tid))
    /\ LET st == req[r].body.status
           modified == st # req[r].task.status
       IN  IF tasks[req[r].tid] = Null \/ (modified /\ ~StatusAllowed(st, statuses))
           THEN /\ Go(r, [pc |-> "done", resp |-> 500])
                /\ UNCHANGED tasks
           ELSE /\ tasks' = IF modified
                            THEN [tasks EXCEPT ![req[r].tid].status = st]
                            ELSE tasks
                /\ Go(r, [pc |-> "done", resp |-> 200])
    /\ UNCHANGED <<sprints, allocated, statuses, cache, nops, cacheVars>>

deleteTask_start(r) ==
    \E tid \in Tasks :
        /\ Begin(r, "deleteTask", [actor |-> "owner", tid |-> tid], "dt_find", "none")
        /\ UNCHANGED <<storeVars, cache, cacheVars>>

\* lines 256-261
deleteTask_find(r) ==
    /\ req[r].pc = "dt_find"
    /\ IF tasks[req[r].tid] = Null
       THEN Go(r, [pc |-> "done", resp |-> 404])
       ELSE Go(r, [pc |-> "dt_delete", task |-> tasks[req[r].tid]])
    /\ UNCHANGED <<storeVars, cache, nops, cacheVars>>

\* lines 270-310: Task.findByIdAndDelete(taskId); no sprint document is written
deleteTask_delete(r) ==
    /\ req[r].pc = "dt_delete"
    /\ DirectWriteFree(TaskDocKey(req[r].tid))
    /\ tasks' = [tasks EXCEPT ![req[r].tid] = Null]
    /\ Go(r, [pc |-> "done", resp |-> 200])
    /\ UNCHANGED <<sprints, allocated, statuses, cache, nops, cacheVars>>

----------------------------------------------------------------------------
(* updateProjectStatuses: projectController.js 93-156 *)

\* 2 to 10 entries without duplicates
StatusesAccepted(v) ==
    /\ Len(v) >= 2
    /\ Len(v) <= 10
    /\ Cardinality(Range(v)) = Len(v)

updateProjectStatuses ==
    \E v \in {DefaultStatuses, CustomStatuses, <<"ToDo">>} :
        /\ nops < MaxOps
        /\ nops' = nops + 1
        /\ statuses' = IF StatusesAccepted(v) THEN v ELSE statuses
        /\ UNCHANGED <<sprints, tasks, allocated, cache, req, cacheVars>>

----------------------------------------------------------------------------
(* getSprintById through getOrSet: sprintController.js 177-216, cacheService.js 14-36 *)

getSprintById_start(r) ==
    \E actor \in Actors, sid \in Sprints :
        /\ Begin(r, "getSprintById", [actor |-> actor, sid |-> sid], "gs_get", "none")
        /\ UNCHANGED <<storeVars, cache, cacheVars>>

\* cacheService.js 15-19: a stored value, null included, is a hit
getSprintById_get(r) ==
    /\ req[r].pc = "gs_get"
    /\ IF cacheGet(cache, SprintKey(req[r].sid)) # Miss
       THEN Go(r, [pc |-> "gs_check", result |-> cacheGet(cache, SprintKey(req[r].sid)).value])
       ELSE Go(r, [pc |-> "gs_fetch"])
    /\ UNCHANGED <<storeVars, cache, nops, cacheVars>>

\* cacheService.js 22 and sprintController.js 190: the fetch function reads the store
getSprintById_fetch(r) ==
    /\ req[r].pc = "gs_fetch"
    /\ Go(r, [pc |-> "gs_set", result |-> sprints[req[r].sid]])
    /\ UNCHANGED <<storeVars, cache, nops, cacheVars>>

\* cacheService.js 25-31: cache.set(key, freshData, ttl)
getSprintById_set(r) ==
    /\ req[r].pc = "gs_set"
    /\ cache' = cacheSet(cache, SprintKey(req[r].sid), req[r].result)
    /\ Go(r, [pc |-> "gs_check"])
    /\ UNCHANGED <<storeVars, nops, cacheVars>>

\* isProjectMember: the owner, or anyone with a role in the project
isProjectMember(actor) == actor = "owner"

\* sprintController.js 199-212
getSprintById_check(r) ==
    /\ req[r].pc = "gs_check"
    /\ IF req[r].result = Null THEN Reject(r, "NotFound")
       ELSE IF ~isProjectMember(req[r].actor) THEN Reject(r, "Forbidden")
       ELSE Go(r, [pc |-> "done", resp |-> 200])
    /\ UNCHANGED <<storeVars, cache, nops, cacheVars>>

----------------------------------------------------------------------------
(* getSprintsForProject: sprintController.js 105-170 *)

\* Sprint.find({ projectId }): the stored sprints of the project
SprintsOfProject(pid) ==
    {x \in Sprints : sprints[x] # Null /\ sprints[x].projectId = pid}

getSprintsForProject_start(r) ==
    \E actor \in Actors, pid \in Projects \cup {"PX"}, q \in Queries :
        /\ Begin(r, "getSprintsForProject", [actor |-> actor, pid |-> pid, body |-> q],
                 "gl_find", "none")
        /\ UNCHANGED <<storeVars, cache, cacheVars>>

\* lines 110-118: Project.findById, isProjectMember
getSprintsForProject_find(r) ==
    /\ req[r].pc = "gl_find"
    /\ IF req[r].pid \notin Projects THEN Reject(r, "NotFound")
       ELSE IF ~isProjectMember(req[r].actor) THEN Reject(r, "Forbidden")
       ELSE Go(r, [pc |-> "gl_get"])
    /\ UNCHANGED <<storeVars, cache, nops, cacheVars>>

\* lines 121-122 and cacheService.js 15-19: the key carries the query
getSprintsForProject_get(r) ==
    /\ req[r].pc = "gl_get"
    /\ LET key == ListKey(req[r].pid, req[r].body)
       IN  IF cacheGet(cache, key) # Miss
           THEN Go(r, [pc |-> "gl_respond", result |-> cacheGet(cache, key).value])
           ELSE Go(r, [pc |-> "gl_fetch"])
    /\ UNCHANGED <<storeVars, cache, nops, cacheVars>>

\* lines 123-148: the fetch function reads the project's sprints from the store
getSprintsForProject_fetch(r) ==
    /\ req[r].pc = "gl_fetch"
    /\ Go(r, [pc |-> "gl_set", result |-> SprintsOfProject(req[r].pid)])
    /\ UNCHANGED <<storeVars, cache, nops, cacheVars>>

\* cacheService.js 25-31: cache.set(key, freshData, 300)
getSprintsForProject_set(r) ==
    /\ req[r].pc = "gl_set"
    /\ cache' = cacheSet(cache, ListKey(req[r].pid, req[r].body), req[r].result)
    /\ Go(r, [pc |-> "gl_respond"])
    /\ UNCHANGED <<storeVars, nops, cacheVars>>

\* lines 152-166: res.json({ success: true, ..., data: sprintsData.sprints })
getSprintsForProject_respond(r) ==
    /\ req[r].pc = "gl_respond"
    /\ Go(r, [pc |-> "done", resp |-> 200])
    /\ UNCHANGED <<storeVars, cache, nops, cacheVars>>

----------------------------------------------------------------------------
(* Initial states: a stored project with its sprints and tasks *)

\* the members of sprint s under the assignment m, in the order of the task ids
RECURSIVE MembersOf(_, _, _)
MembersOf(m, s, ts) ==
    IF ts = <<>> THEN <<>>
    ELSE IF m[Head(ts)] = s THEN <<Head(ts)>> \o MembersOf(m, s, Tail(ts))
         ELSE MembersOf(m, s, Tail(ts))

TaskOrder == <<"T1", "T2">>

InitStore ==
    \E existing \in {{"S1"}, {"S1", "S2"}} :
    \E m \in [Tasks -> existing \cup {NoSprint}] :
        /\ sprints = [s \in Sprints |->
                IF s \in existing
                THEN [NewSprint("Sprint A") EXCEPT !.taskIds = MembersOf(m, s, TaskOrder),
                                                   !.startDate = 1, !.endDate = 3,
                                                   !.status = "Active"]
                ELSE Null]
        /\ tasks = [t \in Tasks |-> NewTask(m[t])]
        /\ allocated = existing
        /\ statuses = DefaultStatuses

Calls == {1, 2}

\* ttl: the third argument (0: none given); held, heldExp, at: the entry under
\* the key, its expiry time and the time when the call began
\* the rate limit of aiService.js 10-11, scaled: the window of 60000 ms is
\* RATE_LIMIT_WINDOW ticks, the margin of 100 ms that line 73 adds is one tick,
\* and MAX_REQUESTS_PER_MINUTE, 40 in the source, is 2
RATE_LIMIT_WINDOW == 2
MAX_REQUESTS_PER_MINUTE == 2
MaxQueued == 4

TimerMargin == 1
ElapsedCap == RATE_LIMIT_WINDOW + TimerMargin
Delays == 0..ElapsedCap

IdleCall ==
    [pc |-> "idle", key |-> <<>>, value |-> 0, fetched |-> FALSE, minVer |-> 0,
     ttl |-> 0, held |-> Miss, heldExp |-> 0, at |-> 0]

\* aiService.js 10-13 and 28-29 at module load
IdleQueue ==
    /\ pendingRequests = <<>>
    /\ isProcessingQueue = FALSE
    /\ requestsInCurrentWindow = 0
    /\ elapsed = 0
    /\ timers = [d \in Delays |-> 0]
    /\ executing = {}
    /\ nqueued = 0
    /\ started = <<>>
    /\ settled = {}
    /\ windowStarts = 0

IdleCache ==
    /\ calls = [c \in Calls |-> IdleCall]
    /\ src = 1
    /\ invAt = [k \in CacheKeys |-> 0]
    /\ ncalls = 0
    /\ now = 0
    /\ expiry = [k \in CacheKeys |-> 0]
    /\ lastInv = [pat |-> <<>>, before |-> [k \in CacheKeys |-> Miss]]
    /\ IdleQueue

Init ==
    /\ InitStore
    /\ cache = [k \in CacheKeys |-> Miss]
    /\ req = [r \in Reqs |-> IdleReq]
    /\ nops = 0
    /\ IdleCache

----------------------------------------------------------------------------
(* Requests that run to completion one after the other *)

AllIdle == \A q \in Reqs : req[q].pc = "idle"

Step(r) ==
    \/ createSprint_validate(r)
    \/ createSprint_findProject(r)
    \/ createSprint_save(r)
    \/ createSprint_publish(r)
    \/ createSprint_commit(r)
    \/ updateSprint_find(r)
    \/ updateSprint_update(r)
    \/ updateSprint_publish(r)
    \/ updateSprint_commit(r)
    \/ deleteSprint_find(r)
    \/ deleteSprint_unset(r)
    \/ deleteSprint_delete(r)
    \/ deleteSprint_publish(r)
    \/ deleteSprint_commit(r)
    \/ addTaskToSprint_find(r)
    \/ addTaskToSprint_findTask(r)
    \/ addTaskToSprint_findOther(r)
    \/ addTaskToSprint_saveOther(r)
    \/ addTaskToSprint_push(r)
    \/ addTaskToSprint_saveTask(r)
    \/ addTaskToSprint_notify(r)
    \/ addTaskToSprint_progress(r)
    \/ removeTaskFromSprint_find(r)
    \/ removeTaskFromSprint_findTask(r)
    \/ removeTaskFromSprint_saveSprint(r)
    \/ removeTaskFromSprint_saveTask(r)
    \/ removeTaskFromSprint_notify(r)
    \/ removeTaskFromSprint_progress(r)
    \/ recalculateSprintProgress_find(r)
    \/ updateSprintProgress_load(r)
    \/ updateSprintProgress_tasks(r)
    \/ updateSprintProgress_save(r)
    \/ updateTask_find(r)
    \/ updateTask_save(r)
    \/ deleteTask_find(r)
    \/ deleteTask_delete(r)
    \/ getSprintById_get(r)
    \/ getSprintById_fetch(r)
    \/ getSprintById_set(r)
    \/ getSprintById_check(r)
    \/ getSprintsForProject_find(r)
    \/ getSprintsForProject_get(r)
    \/ getSprintsForProject_fetch(r)
    \/ getSprintsForProject_set(r)
    \/ getSprintsForProject_respond(r)
    \/ StoreFails(r)
    \/ NotificationFails(r)
    \/ CommitFails(r)
    \/ CatchAbort(r)
    \/ CatchAbortRejects(r)
    \/ CatchNext(r)
    \/ Finish(r)

Start(r) ==
    \/ createSprint_refused(r)
    \/ createSprint_start(r)
    \/ updateSprint_refused(r)
    \/ updateSprint_start(r)
    \/ deleteSprint_start(r)
    \/ addTaskToSprint_start(r)
    \/ removeTaskFromSprint_start(r)
    \/ recalculateSprintProgress_start(r)
    \/ updateTask_start(r)
    \/ deleteTask_start(r)
    \/ getSprintById_start(r)
    \/ getSprintsForProject_start(r)

Next ==
    \/ AllIdle /\ Start(1)
    \/ AllIdle /\ updateProjectStatuses
    \/ Step(1)

Spec == Init /\ [][Next]_vars

----------------------------------------------------------------------------
(* The cache service on its own: getOrSet calls, invalidate and a changing source *)

mainVars == <<sprints, tasks, allocated, statuses, req, nops, queueVars>>

\* cacheService.js 14-19: getOrSet is called; cache.get runs at once, a hit returns
CallKeys == {SprintKey("S1"), ListKey(TheProject, "q0")}

\* the ttl argument of a call: none (0), or one tick
getOrSet_call(c) ==
    \E k \in CallKeys, ttl \in {0, 1} :
        /\ calls[c].pc = "idle"
        /\ ncalls < MaxCalls
        /\ ncalls' = ncalls + 1
        /\ calls' = [calls EXCEPT ![c] =
                [IdleCall EXCEPT
                    !.pc = IF cacheGet(cache, k) # Miss THEN "done" ELSE "fetch",
                    !.key = k,
                    !.value = IF cacheGet(cache, k) # Miss
                              THEN cacheGet(cache, k).value ELSE 0,
                    !.minVer = invAt[k],
                    !.ttl = ttl,
                    !.held = cache[k],
                    !.heldExp = expiry[k],
                    !.at = now]]
        /\ UNCHANGED <<mainVars, cache, src, invAt, now, expiry, lastInv>>

\* cacheService.js 22: await fetchFunction() resolves with the current data
getOrSet_fetch(c) ==
    /\ calls[c].pc = "fetch"
    /\ calls' = [calls EXCEPT ![c].pc = "set", ![c].value = src, ![c].fetched = TRUE]
    /\ UNCHANGED <<mainVars, cache, src, invAt, ncalls, now, expiry, lastInv>>

\* cacheService.js 24-31: if (ttl) cache.set(key, freshData, ttl) else
\* cache.set(key, freshData), which uses stdTTL; return freshData
getOrSet_set(c) ==
    /\ calls[c].pc = "set"
    /\ cache' = cacheSet(cache, calls[c].key, calls[c].value)
    /\ expiry' = [expiry EXCEPT ![calls[c].key] =
                      now + (IF calls[c].ttl # 0 THEN calls[c].ttl ELSE stdTTL)]
    /\ calls' = [calls EXCEPT ![c].pc = "done"]
    /\ UNCHANGED <<mainVars, src, invAt, ncalls, now, lastInv>>

\* a catch block that stores an empty value under the key before it rethrows
getOrSet_fetchFailsCached(c) ==
    /\ calls[c].pc = "fetch"
    /\ cache' = cacheSet(cache, calls[c].key, 0)
    /\ expiry' = [expiry EXCEPT ![calls[c].key] = now + stdTTL]
    /\ calls' = [calls EXCEPT ![c].pc = "failed"]
    /\ UNCHANGED <<mainVars, src, invAt, ncalls, now, lastInv>>

\* cacheService.js 32-35: the fetch function rejects; nothing is stored
getOrSet_fetchFails(c) ==
    /\ calls[c].pc = "fetch"
    /\ calls' = [calls EXCEPT ![c].pc = "failed"]
    /\ UNCHANGED <<mainVars, cache, src, invAt, ncalls, now, expiry, lastInv>>

\* the caller has its answer
getOrSet_return(c) ==
    /\ calls[c].pc \in {"done", "failed"}
    /\ calls' = [calls EXCEPT ![c] = IdleCall]
    /\ UNCHANGED <<mainVars, cache, src, invAt, ncalls, now, expiry, lastInv>>

InvalidatePatterns ==
    {SprintKey("S1"), <<"project", TheProject, "sprints", "*">>}

\* cacheService.js 42-52: invalidate(keyPattern) runs to its end without an await
invalidate_call ==
    \E pat \in InvalidatePatterns :
        /\ cache' = invalidate(cache, pat)
        /\ invAt' = [k \in CacheKeys |->
                IF k \in InvalidatedKeys([j \in CacheKeys |-> [value |-> 0]], pat)
                THEN src ELSE invAt[k]]
        /\ UNCHANGED <<mainVars, calls, src, ncalls, now, expiry, lastInv>>

\* the data behind the keys changes in the store
SourceChanges ==
    /\ src < MaxVersion
    /\ src' = src + 1
    /\ UNCHANGED <<mainVars, cache, calls, invAt, ncalls, now, expiry, lastInv>>

\* time passes
Tick ==
    /\ now < MaxTime
    /\ now' = now + 1
    /\ UNCHANGED <<mainVars, cache, calls, src, invAt, ncalls, expiry, lastInv>>

NextCache ==
    \/ \E c \in Calls : getOrSet_call(c)
    \/ \E c \in Calls : getOrSet_fetch(c)
    \/ \E c \in Calls : getOrSet_set(c)
    \/ \E c \in Calls : getOrSet_fetchFails(c)
    \/ \E c \in Calls : getOrSet_return(c)
    \/ invalidate_call
    \/ SourceChanges

InitCache ==
    /\ sprints = [s \in Sprints |-> Null]
    /\ tasks = [t \in Tasks |-> Null]
    /\ allocated = {}
    /\ statuses = DefaultStatuses
    /\ cache = [k \in CacheKeys |-> Miss]
    /\ req = [r \in Reqs |-> IdleReq]
    /\ nops = 0
    /\ IdleCache

SpecCache == InitCache /\ [][NextCache]_vars

\* getOrSet calls while time passes and entries expire
NextExpiry ==
    \/ \E c \in Calls : getOrSet_call(c)
    \/ \E c \in Calls : getOrSet_fetch(c)
    \/ \E c \in Calls : getOrSet_set(c)
    \/ \E c \in Calls : getOrSet_fetchFails(c)
    \/ \E c \in Calls : getOrSet_return(c)
    \/ SourceChanges
    \/ Tick

SpecExpiry == InitCache /\ [][NextExpiry]_vars

\* cacheService.js 42-52: invalidate(keyPattern) with an exact key, a key that
\* is not held, a pattern that ends in the wildcard, one with text behind it
\* and one whose text is found inside the keys
invalidate_apply ==
    \E pat \in InvalidatePatterns
              \cup {SprintKey("S2"), <<"sprint", "*">>, <<"project", "*", "q0">>,
                    <<"sprints", "*">>, <<"sprint", "*", "S2">>} :
        /\ cache' = invalidate(cache, pat)
        /\ lastInv' = [pat |-> pat, before |-> cache]
        /\ UNCHANGED <<mainVars, calls, src, invAt, ncalls, now, expiry>>

\* cacheService.js 57-59: clear() is cache.flushAll()
clear_call ==
    /\ cache' = [k \in DOMAIN cache |-> Miss]
    /\ lastInv' = [pat |-> <<"clear">>, before |-> cache]
    /\ UNCHANGED <<mainVars, calls, src, invAt, ncalls, now, expiry>>

\* getOrSet calls that fill the cache, invalidate and clear calls between them
NextInvalidate ==
    \/ getOrSet_call(1)
    \/ getOrSet_fetch(1)
    \/ getOrSet_set(1)
    \/ getOrSet_fetchFails(1)
    \/ getOrSet_return(1)
    \/ SourceChanges
    \/ invalidate_apply
    \/ clear_call

SpecInvalidate == InitCache /\ [][NextInvalidate]_vars

----------------------------------------------------------------------------
(* The five coordinator operations alone, one after the other *)

StepCoord(r) ==
    \/ createSprint_validate(r)
    \/ createSprint_findProject(r)
    \/ createSprint_save(r)
    \/ createSprint_publish(r)
    \/ createSprint_commit(r)
    \/ updateSprint_find(r)
    \/ updateSprint_update(r)
    \/ updateSprint_publish(r)
    \/ updateSprint_commit(r)
    \/ deleteSprint_find(r)
    \/ deleteSprint_unset(r)
    \/ deleteSprint_delete(r)
    \/ deleteSprint_publish(r)
    \/ deleteSprint_commit(r)
    \/ addTaskToSprint_find(r)
    \/ addTaskToSprint_findTask(r)
    \/ addTaskToSprint_findOther(r)
    \/ addTaskToSprint_saveOther(r)
    \/ addTaskToSprint_push(r)
    \/ addTaskToSprint_saveTask(r)
    \/ addTaskToSprint_notify(r)
    \/ addTaskToSprint_progress(r)
    \/ removeTaskFromSprint_find(r)
    \/ removeTaskFromSprint_findTask(r)
    \/ removeTaskFromSprint_saveSprint(r)
    \/ removeTaskFromSprint_saveTask(r)
    \/ removeTaskFromSprint_notify(r)
    \/ removeTaskFromSprint_progress(r)
    \/ StoreFails(r)
    \/ NotificationFails(r)
    \/ CommitFails(r)
    \/ CatchAbort(r)
    \/ CatchAbortRejects(r)
    \/ Finish(r)

StartCoord(r) ==
    \/ createSprint_refused(r)
    \/ createSprint_start(r)
    \/ updateSprint_refused(r)
    \/ updateSprint_start(r)
    \/ deleteSprint_start(r)
    \/ addTaskToSprint_start(r)
    \/ removeTaskFromSprint_start(r)

NextCoord ==
    \/ AllIdle /\ StartCoord(1)
    \/ StepCoord(1)

SpecCoord == Init /\ [][NextCoord]_vars

----------------------------------------------------------------------------
(* Concurrent addTaskToSprint requests *)

NextAddAdd ==
    \E r \in Reqs :
        \/ addTaskToSprint_start(r)
        \/ addTaskToSprint_find(r)
        \/ addTaskToSprint_findTask(r)
        \/ addTaskToSprint_findOther(r)
        \/ addTaskToSprint_saveOther(r)
        \/ addTaskToSprint_push(r)
        \/ addTaskToSprint_saveTask(r)
        \/ addTaskToSprint_notify(r)
        \/ addTaskToSprint_progress(r)
        \/ StoreFails(r)
        \/ NotificationFails(r)
        \/ CatchAbort(r)
        \/ Finish(r)

SpecAddAdd == Init /\ [][NextAddAdd]_vars

----------------------------------------------------------------------------
(* addTaskToSprint and removeTaskFromSprint requests that run together *)

NextMembershipRace ==
    \E r \in Reqs :
        \/ addTaskToSprint_start(r)
        \/ addTaskToSprint_find(r)
        \/ addTaskToSprint_findTask(r)
        \/ addTaskToSprint_findOther(r)
        \/ addTaskToSprint_saveOther(r)
        \/ addTaskToSprint_push(r)
        \/ addTaskToSprint_saveTask(r)
        \/ addTaskToSprint_notify(r)
        \/ addTaskToSprint_progress(r)
        \/ removeTaskFromSprint_start(r)
        \/ removeTaskFromSprint_find(r)
        \/ removeTaskFromSprint_findTask(r)
        \/ removeTaskFromSprint_saveSprint(r)
        \/ removeTaskFromSprint_saveTask(r)
        \/ removeTaskFromSprint_notify(r)
        \/ removeTaskFromSprint_progress(r)
        \/ CatchAbort(r)
        \/ Finish(r)

SpecMembershipRace == Init /\ [][NextMembershipRace]_vars

----------------------------------------------------------------------------
(* Progress recomputation with the operations that change what it reads or
   what it overwrites: task statuses, the vocabulary, the stored sprint *)

StepProgress(r) ==
    \/ updateSprint_find(r)
    \/ updateSprint_update(r)
    \/ updateSprint_publish(r)
    \/ updateSprint_commit(r)
    \/ StoreFails(r)
    \/ CommitFails(r)
    \/ CatchAbort(r)
    \/ CatchAbortRejects(r)
    \/ updateTask_find(r)
    \/ updateTask_save(r)
    \/ recalculateSprintProgress_find(r)
    \/ updateSprintProgress_load(r)
    \/ updateSprintProgress_tasks(r)
    \/ updateSprintProgress_save(r)
    \/ CatchNext(r)
    \/ Finish(r)

StartProgress(r) ==
    \/ updateSprint_refused(r)
    \/ updateSprint_start(r)
    \/ updateTask_start(r)
    \/ recalculateSprintProgress_start(r)

NextProgress ==
    \/ AllIdle /\ StartProgress(1)
    \/ AllIdle /\ updateProjectStatuses
    \/ StepProgress(1)

SpecProgress == Init /\ [][NextProgress]_vars

----------------------------------------------------------------------------
(* addTaskToSprint and deleteSprint on a store that also holds a task of another
   project and task ids that name no document *)

OtherProject == "P2"

InitMembership ==
    /\ \E existing \in {{"S1"}, {"S1", "S2"}} :
       \E m \in [Tasks -> existing \cup {NoSprint, "foreign", "absent"}] :
        /\ sprints = [s \in Sprints |->
                IF s \in existing
                THEN [NewSprint("Sprint A") EXCEPT !.taskIds = MembersOf(m, s, TaskOrder),
                                                   !.startDate = 1, !.endDate = 3,
                                                   !.status = "Active"]
                ELSE Null]
        /\ tasks = [t \in Tasks |->
                CASE m[t] = "absent" -> Null
                  [] m[t] = "foreign" ->
                        [NewTask(NoSprint) EXCEPT !.projectId = OtherProject]
                  [] OTHER -> NewTask(m[t])]
        /\ allocated = existing
        /\ statuses = DefaultStatuses
    /\ cache = [k \in CacheKeys |-> Miss]
    /\ req = [r \in Reqs |-> IdleReq]
    /\ nops = 0
    /\ IdleCache

StepMembership(r) ==
    \/ deleteSprint_find(r)
    \/ deleteSprint_unset(r)
    \/ deleteSprint_delete(r)
    \/ deleteSprint_publish(r)
    \/ deleteSprint_commit(r)
    \/ addTaskToSprint_find(r)
    \/ addTaskToSprint_findTask(r)
    \/ addTaskToSprint_findOther(r)
    \/ addTaskToSprint_saveOther(r)
    \/ addTaskToSprint_push(r)
    \/ addTaskToSprint_saveTask(r)
    \/ addTaskToSprint_notify(r)
    \/ addTaskToSprint_progress(r)
    \/ StoreFails(r)
    \/ NotificationFails(r)
    \/ CommitFails(r)
    \/ CatchAbort(r)
    \/ CatchAbortRejects(r)
    \/ Finish(r)

StartMembership(r) ==
    \/ deleteSprint_start(r)
    \/ addTaskToSprint_start(r)

NextMembership ==
    \/ AllIdle /\ StartMembership(1)
    \/ StepMembership(1)

SpecMembership == InitMembership /\ [][NextMembership]_vars

----------------------------------------------------------------------------
(* updateSprint in slot 1 while getSprintById calls run in slot 2 *)

NextReadDuringUpdate ==
    \/ updateSprint_start(1)
    \/ updateSprint_find(1)
    \/ updateSprint_update(1)
    \/ updateSprint_publish(1)
    \/ updateSprint_commit(1)
    \/ CatchAbort(1)
    \/ Finish(1)
    \/ getSprintById_start(2)
    \/ getSprintById_get(2)
    \/ getSprintById_fetch(2)
    \/ getSprintById_set(2)
    \/ getSprintById_check(2)
    \/ Finish(2)

SpecReadDuringUpdate == Init /\ [][NextReadDuringUpdate]_vars

----------------------------------------------------------------------------
(* The queue of AI requests: aiService.js 9-93 *)

appVars == <<sprints, tasks, allocated, statuses, cache, req, nops, calls, src, invAt, ncalls,
             now, expiry, lastInv>>

\* the variables of the queue as one record, and the record written back
QueueState ==
    [pendingRequests |-> pendingRequests, isProcessingQueue |-> isProcessingQueue,
     requestsInCurrentWindow |-> requestsInCurrentWindow, elapsed |-> elapsed,
     timers |-> timers, executing |-> executing, started |-> started,
     windowStarts |-> windowStarts]

SetQueue(q) ==
    /\ pendingRequests' = q.pendingRequests
    /\ isProcessingQueue' = q.isProcessingQueue
    /\ requestsInCurrentWindow' = q.requestsInCurrentWindow
    /\ elapsed' = q.elapsed
    /\ timers' = q.timers
    /\ executing' = q.executing
    /\ started' = q.started
    /\ windowStarts' = q.windowStarts

\* lines 34-40: a new window begins once more than RATE_LIMIT_WINDOW has passed
checkAndResetRateLimit(q) ==
    IF q.elapsed > RATE_LIMIT_WINDOW
    THEN [q EXCEPT !.requestsInCurrentWindow = 0, !.elapsed = 0, !.windowStarts = 0]
    ELSE q

\* line 73: setTimeout(processRequestQueue, RATE_LIMIT_WINDOW - (Date.now() - windowStartTime) + 100)
setTimeout(q) ==
    LET d == RATE_LIMIT_WINDOW - q.elapsed + TimerMargin
        delay == IF d < 0 THEN 0 ELSE d
    IN  [q EXCEPT !.timers[delay] = @ + 1]

RECURSIVE processRequestQueue(_)

\* lines 64-75: the finally block
processRequestQueue_finally(q) ==
    LET q1 == [q EXCEPT !.isProcessingQueue = FALSE]
    IN  IF Len(q1.pendingRequests) > 0
           /\ q1.requestsInCurrentWindow < MAX_REQUESTS_PER_MINUTE
        THEN processRequestQueue(q1)
        ELSE IF Len(q1.pendingRequests) > 0 THEN setTimeout(q1)
        ELSE q1

\* a loop test that lets one more request through
processRequestQueue_loopOneMore(q) ==
    IF Len(q.pendingRequests) > 0 /\ q.requestsInCurrentWindow <= MAX_REQUESTS_PER_MINUTE
    THEN [q EXCEPT !.pendingRequests = Tail(@),
                   !.requestsInCurrentWindow = @ + 1,
                   !.executing = @ \cup {Head(q.pendingRequests)},
                   !.started = Append(@, Head(q.pendingRequests)),
                   !.windowStarts = @ + 1]
    ELSE processRequestQueue_finally(q)

\* lines 53-58: the loop test; shift, count and call execute(), which is
\* awaited, or leave the loop for the finally block
processRequestQueue_loop(q) ==
    IF Len(q.pendingRequests) > 0 /\ q.requestsInCurrentWindow < MAX_REQUESTS_PER_MINUTE
    THEN [q EXCEPT !.pendingRequests = Tail(@),
                   !.requestsInCurrentWindow = @ + 1,
                   !.executing = @ \cup {Head(q.pendingRequests)},
                   !.started = Append(@, Head(q.pendingRequests)),
                   !.windowStarts = @ + 1]
    ELSE processRequestQueue_finally(q)

\* lines 45-53: return when a call is in its loop or nothing is pending
processRequestQueue(q) ==
    IF q.isProcessingQueue \/ Len(q.pendingRequests) = 0
    THEN q
    ELSE processRequestQueue_loop(
             checkAndResetRateLimit([q EXCEPT !.isProcessingQueue = TRUE]))

\* lines 83-93: push the request, then processRequestQueue()
queueAIRequest ==
    /\ nqueued < MaxQueued
    /\ nqueued' = nqueued + 1
    /\ SetQueue(processRequestQueue(
           [QueueState EXCEPT !.pendingRequests = Append(@, nqueued + 1)]))
    /\ UNCHANGED <<appVars, settled>>

\* lines 57-62 and 53: execute() resolves or rejects, the promise of the request
\* is settled with request.resolve(result) or request.reject(error), the loop goes on
execute_settles ==
    \E id \in executing :
        /\ settled' = settled \cup {id}
        /\ SetQueue(processRequestQueue_loop([QueueState EXCEPT !.executing = @ \ {id}]))
        /\ UNCHANGED <<appVars, nqueued>>

\* a timer set at line 73 fires: processRequestQueue()
timerFires ==
    /\ timers[0] > 0
    /\ SetQueue(processRequestQueue([QueueState EXCEPT !.timers[0] = @ - 1]))
    /\ UNCHANGED <<appVars, nqueued, settled>>

\* time passes: Date.now() grows and the timers come closer
TickQueue ==
    /\ elapsed < ElapsedCap \/ \E d \in Delays \ {0} : timers[d] > 0
    /\ elapsed' = IF elapsed < ElapsedCap THEN elapsed + 1 ELSE elapsed
    /\ timers' = [d \in Delays |->
                     IF d = 0 THEN timers[0] + timers[1]
                     ELSE IF d = ElapsedCap THEN 0
                     ELSE timers[d + 1]]
    /\ UNCHANGED <<appVars, pendingRequests, isProcessingQueue, requestsInCurrentWindow,
                   executing, nqueued, started, settled, windowStarts>>

NextQueue ==
    \/ queueAIRequest
    \/ execute_settles
    \/ timerFires
    \/ TickQueue

SpecQueue == Init /\ [][NextQueue]_vars

\* every execute() settles, timers fire and time passes
SpecQueueFair ==
    /\ SpecQueue
    /\ WF_vars(execute_settles)
    /\ WF_vars(timerFires)
    /\ WF_vars(TickQueue)

----------------------------------------------------------------------------
(* Properties *)

\* the ids of the stored sprints and tasks
StoredSprints == {s \in Sprints : sprints[s] # Null}

StoredTasks == {t \in Tasks : tasks[t] # Null}

\* the specified progress of a member list: the rounded share of its tasks whose
\* status is Done, the completed status of the default vocabulary; 0 when empty
ExpectedProgress(ids) ==
    LET found == {i \in 1..Len(ids) : tasks[ids[i]] # Null}
        done  == {i \in found : tasks[ids[i]].status = "Done"}
    IN  IF Len(ids) = 0 THEN 0 ELSE RoundPct(Cardinality(done), Len(ids))

\* slot r holds a finished call of op in which no store call was made to fail
Finished(r, op) ==
    /\ req[r].op = op
    /\ req[r].pc = "done"
    /\ req[r].err \notin {"StoreError", "CommitError", "NotificationError"}

\* the call of slot r was made by the owner on a sprint and a task of the project
\* that both existed when it began
ValidMembershipCall(r) ==
    /\ req[r].actor = "owner"
    /\ req[r].preSprints[req[r].sid] # Null
    /\ req[r].preTasks[req[r].tid] # Null
    /\ req[r].preTasks[req[r].tid].projectId = req[r].preSprints[req[r].sid].projectId

TxnOps ==
    {"createSprint", "updateSprint", "deleteSprint", "addTaskToSprint", "removeTaskFromSprint"}

\* C1: between completed coordinator operations, a stored task names sprint S in
\* its sprintId exactly when S is stored and lists the task in its taskIds
C1_ReferentialSymmetry ==
    AllIdle =>
        \A t \in StoredTasks, s \in Sprints :
            (tasks[t].sprintId = s) <=>
                (sprints[s] # Null /\ t \in Range(sprints[s].taskIds))

C4_MoveTask ==
    \A r \in Reqs :
        LET t  == req[r].tid
            s1 == req[r].preTasks[t].sprintId
        IN  (/\ Finished(r, "addTaskToSprint")
             /\ ValidMembershipCall(r)
             /\ s1 \in Sprints \ {req[r].sid}
             /\ req[r].preSprints[s1] # Null
             /\ t \in Range(req[r].preSprints[s1].taskIds))
            => /\ t \notin Range(sprints[s1].taskIds)
               /\ t \in Range(sprints[req[r].sid].taskIds)
               /\ tasks[t].sprintId = req[r].sid

\* C5: after a successful deleteSprint(S) the sprint is gone from the store, the
\* cache holds no copy of it that getSprintById would answer with, none of its
\* former member tasks has a sprintId, and no stored task has sprintId = S
C5_DeleteCascade ==
    \A r \in Reqs :
        (Finished(r, "deleteSprint") /\ req[r].txn = "committed")
        => /\ sprints[req[r].sid] = Null
           /\ cacheGet(cache, SprintKey(req[r].sid)) \in {Miss, [value |-> Null]}
           /\ \A t \in StoredTasks :
                  /\ tasks[t].sprintId # req[r].sid
                  /\ t \in Range(req[r].preSprints[req[r].sid].taskIds)
                        => tasks[t].sprintId = NoSprint

\* C6: when a coordinator operation has failed inside its transaction and the
\* handler has finished, every sprint and task document has the value it had
\* before the call, and the error that was thrown is the one handed to the caller
C6_AtomicRollback ==
    \A r \in Reqs :
        (req[r].op \in TxnOps /\ req[r].pc = "done" /\ req[r].err # "none")
        => /\ sprints = req[r].preSprints
           /\ tasks = req[r].preTasks
           /\ req[r].handed = req[r].err

\* C6 without the commit: when a step before the commit has failed, the documents
\* are as before the call and the thrown error is handed to the caller
C6_RollbackBeforeCommit ==
    \A r \in Reqs :
        (req[r].op \in TxnOps /\ req[r].pc = "done"
            /\ req[r].err \notin {"none", "CommitError"})
        => /\ sprints = req[r].preSprints
           /\ tasks = req[r].preTasks
           /\ req[r].handed = req[r].err

\* C7: a coordinator operation has invalidated a cache key or emitted an event
\* only if its transaction has committed
C7_SideEffectsAfterCommit ==
    \A r \in Reqs :
        (req[r].op \in TxnOps /\ (req[r].emitted # {} \/ req[r].invalidated # {}))
        => req[r].txn = "committed"

\* C7, second half: an operation whose transaction was rolled back has emitted
\* no event and invalidated no cache key
C7_RolledBackIsSilent ==
    \A r \in Reqs :
        (req[r].op \in TxnOps /\ req[r].txn = "aborted")
        => (req[r].emitted = {} /\ req[r].invalidated = {})

\* C8: a getOrSet call for key k that began after an invalidation of k answers
\* with data at least as new as the data at the time of that invalidation
C8_InvalidationForcesMiss ==
    \A c \in Calls :
        calls[c].pc = "done" => calls[c].value >= calls[c].minVer

\* C9: with the default vocabulary, a successful recalculation of the progress of
\* a sprint whose only member task has status Done stores 100
C9_CompletionPredicate ==
    \A r \in Reqs :
        (/\ Finished(r, "recalculateSprintProgress")
         /\ req[r].resp = 200
         /\ statuses = DefaultStatuses
         /\ sprints[req[r].sid] # Null
         /\ Len(sprints[req[r].sid].taskIds) = 1
         /\ tasks[sprints[req[r].sid].taskIds[1]] # Null
         /\ tasks[sprints[req[r].sid].taskIds[1]].status = "Done")
        => sprints[req[r].sid].progressPercentage = 100

\* C10: when updateTask has changed the status of a task and has completed, every
\* sprint that lists the task stores the specified progress of its members
C10_ProgressFollowsStatus ==
    \A r \in Reqs :
        (/\ Finished(r, "updateTask")
         /\ req[r].resp = 200
         /\ tasks[req[r].tid] # Null
         /\ tasks[req[r].tid].status # req[r].preTasks[req[r].tid].status)
        => \A s \in StoredSprints :
               req[r].tid \in Range(sprints[s].taskIds)
                   => sprints[s].progressPercentage = ExpectedProgress(sprints[s].taskIds)

C12_EmptySprintProgressZero ==
    \A r \in Reqs :
        (/\ Finished(r, "recalculateSprintProgress")
         /\ req[r].actor = "owner"
         /\ sprints[req[r].sid] # Null
         /\ sprints[req[r].sid].taskIds = <<>>)
        => sprints[req[r].sid].progressPercentage = 0

\* C13: a recalculate-progress call that follows, with nothing in between, a
\* recalculate-progress call of the same caller for the same sprint is answered
\* like the first one, with the same percentage, and leaves every sprint and task
\* document as the first one left it
C13_RecomputeIdempotent ==
    \A r \in Reqs :
        (/\ Finished(r, "recalculateSprintProgress")
         /\ req[r].prev # NoPrev
         /\ req[r].prev.sid = req[r].sid
         /\ req[r].prev.actor = req[r].actor)
        => /\ Answer(req[r]) = req[r].prev
           /\ sprints = req[r].preSprints
           /\ tasks = req[r].preTasks

\* the second of two successive recalculations of a sprint with members has been answered
C13_Witness ==
    \E r \in Reqs :
        /\ Finished(r, "recalculateSprintProgress")
        /\ req[r].prev # NoPrev
        /\ req[r].prev.sid = req[r].sid
        /\ req[r].prev.actor = req[r].actor
        /\ req[r].prev.resp = 200
        /\ req[r].resp = 200
        /\ sprints[req[r].sid].taskIds # <<>>

\* C14: after a successful createSprint in project P the cache holds no list of
\* the sprints of P, for any query, and sprint:created was emitted to P's room
C14_CreateInvalidatesLists ==
    \A r \in Reqs :
        (Finished(r, "createSprint") /\ req[r].txn = "committed")
        => /\ \A q \in Queries : cacheGet(cache, ListKey(req[r].pid, q)) = Miss
           /\ Event(ProjectRoom(req[r].pid), "sprint:created") \in req[r].emitted

\* C15: a committed updateSprint leaves the sprint's stored progressPercentage as
\* it was before the call, a sprint stored by a committed createSprint has
\* progressPercentage 0, and every stored progressPercentage is within 0..100
C15_ProgressDerivedOnly ==
    /\ \A s \in StoredSprints : sprints[s].progressPercentage \in 0..100
    /\ \A r \in Reqs :
        /\ (Finished(r, "updateSprint") /\ req[r].txn = "committed")
              => sprints[req[r].sid].progressPercentage =
                        req[r].preSprints[req[r].sid].progressPercentage
        /\ (Finished(r, "createSprint") /\ req[r].txn = "committed")
              => \A s \in StoredSprints :
                    req[r].preSprints[s] = Null => sprints[s].progressPercentage = 0

\* C16: a committed updateSprint leaves the taskIds of every sprint and the
\* sprintId of every task as they were before the call
C16_UpdateKeepsMembership ==
    \A r \in Reqs :
        (Finished(r, "updateSprint") /\ req[r].txn = "committed")
        => /\ \A s \in StoredSprints : sprints[s].taskIds = req[r].preSprints[s].taskIds
           /\ \A t \in StoredTasks : tasks[t].sprintId = req[r].preTasks[t].sprintId

\* C17: no step of an operation other than updateSprint changes the status of a
\* stored sprint whose status is Cancelled
C17_CancelledIsTerminal ==
    [][\A s \in Sprints :
          (/\ sprints[s] # Null
           /\ sprints[s].status = "Cancelled"
           /\ sprints'[s] # Null
           /\ \A r \in Reqs : req[r].op # "updateSprint")
          => sprints'[s].status = "Cancelled"]_vars

\* C17, second half: no step of an operation other than updateSprint makes a
\* stored sprint Cancelled
C17_NeverCancelledBySave ==
    [][\A s \in Sprints :
          (/\ sprints[s] # Null
           /\ sprints[s].status # "Cancelled"
           /\ sprints'[s] # Null
           /\ \A r \in Reqs : req[r].op # "updateSprint")
          => sprints'[s].status # "Cancelled"]_vars

\* the specified lifecycle status of a sprint with both dates set
ExpectedStatus(doc) ==
    IF Now < doc.startDate THEN "Planning"
    ELSE IF Now <= doc.endDate THEN "Active"
    ELSE "Completed"

\* C18: after a successful createSprint, updateSprint, addTaskToSprint,
\* removeTaskFromSprint or progress recomputation, the written sprint, when it is
\* not cancelled and has both dates, stores the status specified for its dates
C18_StatusDerivedOnWrite ==
    \A r \in Reqs :
        (/\ req[r].pc = "done"
         /\ \/ req[r].op \in TxnOps \ {"deleteSprint"} /\ req[r].txn = "committed"
            \/ req[r].op = "recalculateSprintProgress" /\ req[r].resp = 200
         /\ sprints[req[r].sid] # Null
         /\ sprints[req[r].sid].status # "Cancelled"
         /\ sprints[req[r].sid].startDate # NoDate
         /\ sprints[req[r].sid].endDate # NoDate)
        => sprints[req[r].sid].status = ExpectedStatus(sprints[req[r].sid])

\* C19: when the notification of an addTaskToSprint or removeTaskFromSprint call
\* has failed and the handler has finished, the operation has committed and no
\* error was handed to the caller
C19_NotificationFailureIsLocal ==
    \A r \in Reqs :
        (/\ req[r].op \in {"createSprint", "addTaskToSprint", "removeTaskFromSprint"}
         /\ req[r].pc = "done"
         /\ req[r].err = "NotificationError")
        => /\ req[r].txn = "committed"
           /\ req[r].handed = "none"

\* the check of addTaskToSprint that refuses the call of slot r, judged on the
\* documents stored when the call began; "none" when no check refuses it
AddRefusal(r) ==
    LET sprint == req[r].preSprints[req[r].sid]
        task == req[r].preTasks[req[r].tid]
    IN  IF sprint = Null THEN "NotFound"
        ELSE IF req[r].actor # "owner" THEN "Forbidden"
        ELSE IF task = Null THEN "NotFound"
        ELSE IF task.projectId # sprint.projectId THEN "InvalidInput"
        ELSE "none"

\* C20: a finished addTaskToSprint call on a missing sprint or a missing task
\* was answered NotFound (404), one by an actor without permission Forbidden
\* (403), one for a task of another project InvalidInput (400), the first
\* failing check of the handler deciding; in each case the stored sprints and
\* tasks are those of before the call, no cache key was invalidated and no event
\* was emitted
C20_AddErrorOutcomes ==
    \A r \in Reqs :
        (Finished(r, "addTaskToSprint") /\ AddRefusal(r) # "none")
        => /\ req[r].handed = AddRefusal(r)
           /\ req[r].resp = CASE AddRefusal(r) = "NotFound" -> 404
                              [] AddRefusal(r) = "Forbidden" -> 403
                              [] AddRefusal(r) = "InvalidInput" -> 400
           /\ sprints = req[r].preSprints
           /\ tasks = req[r].preTasks
           /\ req[r].invalidated = {}
           /\ req[r].emitted = {}

\* a finished call of the owner for a stored sprint and a stored task of another
\* project, answered 400
C20_Witness ==
    \E r \in Reqs :
        /\ Finished(r, "addTaskToSprint")
        /\ AddRefusal(r) = "InvalidInput"
        /\ req[r].resp = 400

\* the operations behind the permission check
GatedOps == TxnOps \cup {"recalculateSprintProgress"}

\* the call of slot r passed the input validation and names a stored project
\* (createSprint) or a sprint that was stored when the call began
GateReached(r) ==
    CASE req[r].op = "createSprint" ->
            /\ req[r].pid \in Projects
            /\ validateSprintRequest(req[r].body, FALSE)
      [] req[r].op = "updateSprint" ->
            /\ req[r].preSprints[req[r].sid] # Null
            /\ validateSprintRequest(req[r].body, TRUE)
      [] OTHER -> req[r].preSprints[req[r].sid] # Null

\* C21: a finished createSprint, updateSprint, deleteSprint, addTaskToSprint,
\* removeTaskFromSprint or recalculate-progress call of an actor without
\* permission on the project was answered Forbidden (403), and the stored
\* sprints and tasks are those of before the call
C21_PermissionGate ==
    \A r \in Reqs :
        (/\ req[r].op \in GatedOps
         /\ Finished(r, req[r].op)
         /\ req[r].actor # "owner"
         /\ GateReached(r))
        => /\ req[r].handed = "Forbidden"
           /\ req[r].resp = 403
           /\ sprints = req[r].preSprints
           /\ tasks = req[r].preTasks

\* an actor without permission was refused the removal of a task from a sprint
\* that lists it
C21_Witness ==
    \E r \in Reqs :
        /\ Finished(r, "removeTaskFromSprint")
        /\ req[r].actor = "outsider"
        /\ req[r].preSprints[req[r].sid] # Null
        /\ req[r].tid \in Range(req[r].preSprints[req[r].sid].taskIds)
        /\ req[r].resp = 403

\* C22: a finished removeTaskFromSprint(S, T) call of the owner, made when S
\* listed T and the document of T was gone, was answered with success, S no
\* longer lists T, the progress of S is the one computed from its members, and
\* the session holds no write of a task document
C22_RemoveToleratesDeletedTask ==
    \A r \in Reqs :
        (/\ Finished(r, "removeTaskFromSprint")
         /\ req[r].actor = "owner"
         /\ req[r].preSprints[req[r].sid] # Null
         /\ req[r].tid \in Range(req[r].preSprints[req[r].sid].taskIds)
         /\ req[r].preTasks[req[r].tid] = Null)
        => /\ req[r].resp = 200
           /\ sprints[req[r].sid] # Null
           /\ req[r].tid \notin Range(sprints[req[r].sid].taskIds)
           /\ sprints[req[r].sid].progressPercentage
                  = ExpectedProgress(sprints[req[r].sid].taskIds)
           /\ \A i \in DOMAIN req[r].writes : req[r].writes[i].k # "setTask"

\* C23: a finished addTaskToSprint(S, T) call of the owner for a stored sprint S
\* and a stored task T of the same project was answered with success, the
\* stored S.taskIds contains T and the stored T.sprintId is S
C23_AddPostcondition ==
    \A r \in Reqs :
        (Finished(r, "addTaskToSprint") /\ ValidMembershipCall(r))
        => /\ req[r].resp = 200
           /\ sprints[req[r].sid] # Null
           /\ req[r].tid \in Range(sprints[req[r].sid].taskIds)
           /\ tasks[req[r].tid] # Null
           /\ tasks[req[r].tid].sprintId = req[r].sid

\* C23, the part the code keeps: an addTaskToSprint call that was answered with
\* success would have left T in S.taskIds and T.sprintId = S (no call is)
C23_IfAnsweredThenMember ==
    \A r \in Reqs :
        (Finished(r, "addTaskToSprint") /\ req[r].resp = 200)
        => /\ sprints[req[r].sid] # Null
           /\ req[r].tid \in Range(sprints[req[r].sid].taskIds)

\* the number of times x occurs in the sequence q
Occurrences(q, x) == Cardinality({i \in DOMAIN q : q[i] = x})

\* C24: a finished addTaskToSprint(S, T) call of the owner, made when S.taskIds
\* already held T, leaves S.taskIds as it was with T in it exactly once, and
\* T.sprintId = S
C24_AddIdempotent ==
    \A r \in Reqs :
        (/\ Finished(r, "addTaskToSprint")
         /\ ValidMembershipCall(r)
         /\ req[r].tid \in Range(req[r].preSprints[req[r].sid].taskIds))
        => /\ sprints[req[r].sid] # Null
           /\ sprints[req[r].sid].taskIds = req[r].preSprints[req[r].sid].taskIds
           /\ Occurrences(sprints[req[r].sid].taskIds, req[r].tid) = 1
           /\ tasks[req[r].tid] # Null
           /\ tasks[req[r].tid].sprintId = req[r].sid

\* C24, the part the code keeps: such a call does not change S.taskIds
C24_MemberListUntouched ==
    \A r \in Reqs :
        (/\ Finished(r, "addTaskToSprint")
         /\ ValidMembershipCall(r)
         /\ req[r].tid \in Range(req[r].preSprints[req[r].sid].taskIds))
        => /\ sprints[req[r].sid] # Null
           /\ sprints[req[r].sid].taskIds = req[r].preSprints[req[r].sid].taskIds

\* the key of call c held an entry whose expiry time had not passed when the
\* call began
HeldFresh(c) == calls[c].held # Miss /\ calls[c].heldExp >= calls[c].at

\* a getOrSet call that has its answer: from the cache without a fetch when the
\* key was held and not expired, from one fetch otherwise
HitOrFetch ==
    \A c \in Calls :
        calls[c].pc = "done" =>
            IF HeldFresh(c)
            THEN ~calls[c].fetched /\ calls[c].value = calls[c].held.value
            ELSE calls[c].fetched

\* the step that ends a fetching call stores the fetched value under the key,
\* with the expiry time the ttl argument gives, and answers with that value
SetStores ==
    \A c \in Calls :
        (calls[c].pc = "set" /\ calls'[c].pc = "done")
        => /\ cache'[calls[c].key] = [value |-> calls[c].value]
           /\ expiry'[calls[c].key]
                  = now + (IF calls[c].ttl = 0 THEN stdTTL ELSE calls[c].ttl)
           /\ calls'[c].value = calls[c].value

\* C25: getOrSet answers from the cache without invoking fetch when the key is
\* held and not expired; otherwise it invokes fetch once, stores the result
\* under the key with the given TTL and answers with it; an entry whose expiry
\* time has passed is never the answer
C25_ReadThrough == [](HitOrFetch) /\ [][SetStores]_vars

\* a call found an expired entry under its key and answered from a fetch
C25_Witness ==
    \E c \in Calls :
        /\ calls[c].pc = "done"
        /\ calls[c].held # Miss
        /\ calls[c].heldExp < calls[c].at
        /\ calls[c].fetched
        /\ calls[c].value # calls[c].held.value

\* the key is some text, the text of the pattern before its wildcard, some
\* text, the text of the pattern behind the wildcard, some text
WildcardMatch(pat, key) ==
    \E i \in 1..Len(pat) :
        /\ pat[i] = "*"
        /\ \A j \in 1..(i - 1) : pat[j] # "*"
        /\ \E a \in 0..Len(key), b \in 0..Len(key) :
              /\ a + (i - 1) <= b
              /\ b + (Len(pat) - i) <= Len(key)
              /\ SubSeq(key, a + 1, a + i - 1) = SubSeq(pat, 1, i - 1)
              /\ SubSeq(key, b + 1, b + Len(pat) - i) = SubSeq(pat, i + 1, Len(pat))

\* the keys a call with this argument has to delete; <<"clear">> stands for clear()
HasToDelete(pat, key) ==
    IF pat = <<"clear">> THEN TRUE
    ELSE IF "*" \in Range(pat) THEN WildcardMatch(pat, key)
    ELSE key = pat

\* C26: a step that is an invalidate(p) or clear() call leaves Miss under the
\* key p when p has no wildcard, under every key that matches p when it has
\* one, under every key for clear(), and leaves every other key with the entry
\* it had
C26_InvalidateExactOrPattern ==
    [][(calls' = calls /\ src' = src)
       => \A k \in CacheKeys :
              cache'[k] = IF HasToDelete(lastInv'.pat, k) THEN Miss ELSE cache[k]]_vars

\* invalidate('sprints*') has deleted the held list key, inside which the text
\* occurs, and has left the held sprint key in place
C26_Witness ==
    /\ lastInv.pat = <<"sprints", "*">>
    /\ lastInv.before[ListKey(TheProject, "q0")] # Miss
    /\ lastInv.before[SprintKey("S1")] # Miss
    /\ cache[ListKey(TheProject, "q0")] = Miss
    /\ cache[SprintKey("S1")] = lastInv.before[SprintKey("S1")]

\* C27: between completed requests, every stored sprint that has a start date
\* and an end date has its start date on or before its end date
C27_DatesOrdered ==
    AllIdle =>
        \A s \in StoredSprints :
            (sprints[s].startDate # NoDate /\ sprints[s].endDate # NoDate)
            => sprints[s].startDate <= sprints[s].endDate

\* C28: between completed requests, the status of every stored task of the
\* project is an entry of the project's status vocabulary, and the vocabulary
\* has 2 to 10 entries, no two of them equal
C28_StatusInVocabulary ==
    AllIdle =>
        /\ \A t \in StoredTasks :
              tasks[t].projectId = TheProject => tasks[t].status \in Range(statuses)
        /\ Len(statuses) >= 2
        /\ Len(statuses) <= 10
        /\ \A i, j \in DOMAIN statuses : statuses[i] = statuses[j] => i = j

\* C28, the part the code keeps: the vocabulary has 2 to 10 entries, no two of
\* them equal
C28_VocabularyWellFormed ==
    /\ Len(statuses) >= 2
    /\ Len(statuses) <= 10
    /\ \A i, j \in DOMAIN statuses : statuses[i] = statuses[j] => i = j

\* a body createSprint has to reject: no name, a trimmed name of fewer than 3 or
\* more than 100 characters, a date that cannot be parsed, an end date before
\* the start date, or one date without the other
InvalidCreateBody(body) ==
    \/ "name" \notin DOMAIN body
    \/ TrimmedLength(body.name) < 3
    \/ TrimmedLength(body.name) > 100
    \/ ("startDate" \in DOMAIN body) # ("endDate" \in DOMAIN body)
    \/ /\ "startDate" \in DOMAIN body
       /\ "endDate" \in DOMAIN body
       /\ (body.startDate < 0 \/ body.endDate < 0 \/ body.endDate < body.startDate)

\* C29: a createSprint request with such a body is answered 400, and when it is
\* answered the stored sprints are those of before the request and no event
\* has been emitted for it
C29_CreateRejectsInvalid ==
    \A r \in Reqs :
        (req[r].op = "createSprint" /\ InvalidCreateBody(req[r].body))
        => /\ req[r].emitted = {}
           /\ req[r].writes = <<>>
           /\ req[r].pc = "done" =>
                  (req[r].resp = 400 /\ sprints = req[r].preSprints)

\* a request with one date only has been answered 400
C29_Witness ==
    \E r \in Reqs :
        /\ req[r].op = "createSprint"
        /\ req[r].pc = "done"
        /\ "startDate" \in DOMAIN req[r].body
        /\ "endDate" \notin DOMAIN req[r].body
        /\ req[r].resp = 400

\* C30: a createSprint or updateSprint request that has ended with a validation
\* error, from the input checks or from the schema's validators, never had a
\* transaction
C30_ValidationBeforeTransaction ==
    \A r \in Reqs :
        (/\ req[r].op \in {"createSprint", "updateSprint"}
         /\ req[r].pc = "done"
         /\ (req[r].resp = 400 \/ req[r].handed \in {"InvalidInput", "ValidatorError"}))
        => req[r].txn = "none"

\* C30, the part the code keeps: a request whose body validateSprintInput
\* refuses is answered by the middleware, and no transaction is started for it
C30_RefusedHasNoTransaction ==
    \A r \in Reqs :
        \/ /\ req[r].op = "createSprint"
           /\ validateSprintInput(req[r].body, FALSE) # "none"
        \/ /\ req[r].op = "updateSprint"
           /\ validateSprintInput(req[r].body, TRUE) # "none"
        => req[r].txn = "none"

C32_TransactionClosed ==
    \A r \in Reqs :
        (req[r].op \in TxnOps /\ req[r].pc = "done") => req[r].txn # "open"

\* C33: a getSprintById(S) call that has its answer, made while the stored
\* sprints did not change and with no uncommitted write of another request
\* pending at its end, answers with the committed state of S
C33_NoStaleSprint ==
    \A r \in Reqs :
        (/\ Finished(r, "getSprintById")
         /\ sprints = req[r].preSprints
         /\ \A q \in Reqs \ {r} : req[q].txn # "open" \/ req[q].writes = <<>>)
        => req[r].result = sprints[req[r].sid]

C36_NoDanglingMembers ==
    [][\A r \in Reqs :
          (/\ req[r].op = "deleteTask"
           /\ req[r].pc = "dt_delete"
           /\ req'[r].pc = "done"
           /\ req'[r].resp = 200)
          => \A s \in Sprints :
                 sprints'[s] # Null => req[r].tid \notin Range(sprints'[s].taskIds)]_vars

C38_RecalculateNeverFails ==
    \A r \in Reqs :
        (/\ req[r].op = "recalculateSprintProgress"
         /\ req[r].pc = "done"
         /\ hasProjectPermission(req[r].actor)
         /\ req[r].preSprints[req[r].sid] # Null
         /\ sprints[req[r].sid] # Null)
        => /\ req[r].resp = 200
           /\ req[r].err = "none"
           /\ sprints[req[r].sid].progressPercentage \in 0..100

\* C39: the step in which the fetch function of a getOrSet(key, fetch) call
\* fails hands the error to the caller and changes no cache entry, the key is
\* not held then nor when the caller has its answer, and a getOrSet call for a
\* key that is not held goes on to invoke its fetch function
C39_FailedFetchNotCached ==
    [][\A c \in Calls :
          /\ (calls[c].pc = "fetch" /\ calls'[c].pc \notin {"fetch", "set"})
             => /\ calls'[c].pc = "failed"
                /\ cache' = cache
                /\ expiry' = expiry
                /\ cacheGet(cache', calls[c].key) = Miss
          /\ (calls[c].pc = "failed" /\ calls'[c].pc # "failed")
             => /\ cache' = cache
                /\ cacheGet(cache', calls[c].key) = Miss
          /\ (calls[c].pc = "idle" /\ calls'[c].pc # "idle"
                /\ cacheGet(cache, calls'[c].key) = Miss)
             => calls'[c].pc = "fetch"]_vars

\* a fetch has failed for a key while another key is held
C39_Witness ==
    \E c \in Calls :
        /\ calls[c].pc = "failed"
        /\ ncalls >= 2
        /\ \E k \in CacheKeys : k # calls[c].key /\ cacheGet(cache, k) # Miss

\* C40: in every state at most MAX_REQUESTS_PER_MINUTE requests have started in
\* the current rate-limit window, the requests have started in the order in
\* which they were queued, at most one is executing; and every queued request
\* is eventually settled
C40_QueueRateCapAndProgress ==
    /\ [](/\ windowStarts <= MAX_REQUESTS_PER_MINUTE
          /\ \A i \in DOMAIN started : started[i] = i
          /\ Cardinality(executing) <= 1)
    /\ \A i \in 1..MaxQueued : (nqueued >= i) ~> (i \in settled)

\* the cap has stopped the loop with a request pending and a timer scheduled,
\* and a request queued before has been settled
C40_Witness ==
    /\ windowStarts = MAX_REQUESTS_PER_MINUTE
    /\ Len(pendingRequests) > 0
    /\ executing = {}
    /\ ~isProcessingQueue
    /\ \E d \in Delays : timers[d] > 0
    /\ settled # {}

====
